---- MODULE Spec2Model ----
(***************************************************************************)
(* Model of the generic method-invocation bridge of artifactory_mcp: the   *)
(* handle store (handles.py, and its copy in server.py), the drop-handle   *)
(* tools, and the method invocation engine (bridge.py, and its older copy  *)
(* in server.py).                                                          *)
(*                                                                         *)
(* Text is a sequence of one-character strings, so that strip(),           *)
(* startswith(), f"h{counter}" and difflib's matching are computed and not *)
(* assumed.  A Python dict is a sequence of key/value entries in insertion *)
(* order.                                                                  *)
(***************************************************************************)
EXTENDS Integers, Sequences, FiniteSets, TLC

VARIABLES
    entry,      \* which tool module the process runs: "tools" (tools.py) or "server" (server.py)
    settings,   \* SETTINGS, read from the environment at import
    items,      \* _HandleStore._items, in insertion order
    counter,    \* _HandleStore._counter
    lock,       \* _HandleStore._lock: 0 when free, else the thread holding it
    pc,         \* per thread: where it is inside a store method
    loc,        \* per thread: the locals of the method it runs
    last,       \* the most recently completed call: its name, arguments and outcome
    put_log,    \* history: <<id, obj>> of every completed put, in order
    drop_log,   \* history: the issued ids on which drop has run
    remote      \* the artifacts the Artifactory server holds

vars == <<entry, settings, items, counter, lock, pc, loc, last, put_log, drop_log, remote>>

\* fixed at import
config == <<entry, settings>>

----------------------------------------------------------------------------
(* Bounds *)

\* how far the store's counter may run
MaxCounter == 3

\* how far invocations may run the counter
MaxInvokeCounter == 1

\* how far encoding may run the counter
MaxCodecCounter == 2

\* how long a bytearray may grow
MaxByteArrayLen == 3

----------------------------------------------------------------------------
(* Text *)

Whitespace == {" ", "\t", "\n"}

RECURSIVE LStrip(_)
LStrip(s) ==
    IF s # <<>> /\ Head(s) \in Whitespace THEN LStrip(Tail(s)) ELSE s

RECURSIVE RStrip(_)
RStrip(s) ==
    IF s # <<>> /\ s[Len(s)] \in Whitespace THEN RStrip(SubSeq(s, 1, Len(s) - 1)) ELSE s

\* str.strip()
Strip(s) == RStrip(LStrip(s))

\* str.startswith(prefix) for a one-character prefix
StartsWith(s, ch) == s # <<>> /\ Head(s) = ch

Digit == <<"0", "1", "2", "3", "4", "5", "6", "7", "8", "9">>

UpperLetters == <<"A", "B", "C", "D", "E", "F", "G", "H", "I", "J", "K", "L", "M", "N", "O", "P", "Q", "R", "S", "T", "U", "V", "W", "X", "Y", "Z">>
LowerLetters == <<"a", "b", "c", "d", "e", "f", "g", "h", "i", "j", "k", "l", "m", "n", "o", "p", "q", "r", "s", "t", "u", "v", "w", "x", "y", "z">>
HexDigits == <<"0", "1", "2", "3", "4", "5", "6", "7", "8", "9", "a", "b", "c", "d", "e", "f">>

\* str(n) for n >= 0, as an f-string renders an int
RECURSIVE DecStr(_)
DecStr(n) ==
    IF n < 10 THEN <<Digit[n + 1]>>
    ELSE DecStr(n \div 10) \o <<Digit[(n % 10) + 1]>>

----------------------------------------------------------------------------
(* Python values.  t is the kind, c the class name, a the identity of an   *)
(* opaque object, n a number, s text, b bytes, xs the children.            *)

Val(t, c, a, n, s, b, xs) ==
    [t |-> t, c |-> c, a |-> a, n |-> n, s |-> s, b |-> b, xs |-> xs]

PyNone == Val("none", "NoneType", "", 0, <<>>, <<>>, <<>>)
PyStr(s) == Val("str", "str", "", 0, s, <<>>, <<>>)
PyInt(n) == Val("int", "int", "", n, <<>>, <<>>, <<>>)
PyBool(x) == Val("bool", "bool", "", IF x THEN 1 ELSE 0, <<>>, <<>>, <<>>)
PyBytes(b) == Val("bytes", "bytes", "", 0, <<>>, b, <<>>)
PyList(xs) == Val("list", "list", "", 0, <<>>, <<>>, xs)
PyTuple(xs) == Val("tuple", "tuple", "", 0, <<>>, <<>>, xs)
\* a set, its elements in the order iteration visits them
PySet(xs) == Val("set", "set", "", 0, <<>>, <<>>, xs)
\* an iterator that yields xs and ends
PyIterator(xs) == Val("iterator", "list_iterator", "", 0, <<>>, <<>>, xs)
\* an iterator that yields xs over and over and never ends (n = 1)
PyEndlessIterator(xs) == Val("iterator", "cycle", "", 1, <<>>, <<>>, xs)
PyPurePath(s) == Val("pathlib", "PosixPath", "", 0, s, <<>>, <<>>)
\* a dict is a sequence of entries, each a key and a value
PyEntry(k, v) == Val("entry", "", "", 0, <<>>, <<>>, <<k, v>>)
PyDict(entries) == Val("dict", "dict", "", 0, <<>>, <<>>, entries)
PyException(cls, message) == Val("exception", cls, "", 0, message, <<>>, <<>>)
PyAwaitable(ident) == Val("awaitable", "coroutine", ident, 0, <<>>, <<>>, <<>>)
\* an object with no JSON form, known by its identity
PyObject(cls, ident) == Val("object", cls, ident, 0, <<>>, <<>>, <<>>)
\* a bytearray: an object with no JSON form whose content b changes in place
PyByteArray(ident, b) == Val("object", "bytearray", ident, 0, <<>>, b, <<>>)

\* type(obj).__name__
TypeName(v) == v.c

\* one byte in the repr of bytes: a letter or a digit as it is, a byte that
\* is not printable as \xNN
ByteRepr(n) ==
    IF n >= 65 /\ n <= 90 THEN <<UpperLetters[n - 64]>>
    ELSE IF n >= 97 /\ n <= 122 THEN <<LowerLetters[n - 96]>>
    ELSE IF n >= 48 /\ n <= 57 THEN <<Digit[n - 47]>>
    ELSE <<"\\", "x", HexDigits[(n \div 16) + 1], HexDigits[(n % 16) + 1]>>

RECURSIVE BytesRepr(_)
BytesRepr(b) == IF b = <<>> THEN <<>> ELSE ByteRepr(Head(b)) \o BytesRepr(Tail(b))

\* repr(obj) of None, of a bytearray, and of an object with the default
\* __repr__
Repr(v) ==
    IF v.t = "none" THEN <<"N", "o", "n", "e">>
    ELSE IF v.c = "bytearray" THEN <<"b", "y", "t", "e", "a", "r", "r", "a", "y", "(", "b", "'">> \o BytesRepr(v.b) \o <<"'", ")">>
    ELSE <<"<", v.c, " object at ", v.a, ">">>

----------------------------------------------------------------------------
(* dict, in insertion order *)

DictHas(d, k) == \E i \in 1..Len(d) : d[i].k = k

DictGet(d, k) == d[CHOOSE i \in 1..Len(d) : d[i].k = k].v

DictSet(d, k, v) ==
    IF DictHas(d, k)
    THEN [i \in 1..Len(d) |-> IF d[i].k = k THEN [k |-> k, v |-> v] ELSE d[i]]
    ELSE Append(d, [k |-> k, v |-> v])

RECURSIVE DictWithout(_, _)
DictWithout(d, k) ==
    IF d = <<>> THEN <<>>
    ELSE IF Head(d).k = k THEN Tail(d)
    ELSE <<Head(d)>> \o DictWithout(Tail(d), k)

\* dict.pop(k, default): the value removed, or the default
DictPopValue(d, k, default) == IF DictHas(d, k) THEN DictGet(d, k) ELSE default

DictKeys(d) == {d[i].k : i \in 1..Len(d)}

----------------------------------------------------------------------------
(* Text of messages.  A message is a string; Str joins characters into one *)

RECURSIVE Str(_)
Str(cs) == IF cs = <<>> THEN "" ELSE Head(cs) \o Str(Tail(cs))

\* repr of one character of a str: a newline and a tab are escaped
ReprChar(ch) == IF ch = "\n" THEN "\\n" ELSE IF ch = "\t" THEN "\\t" ELSE ch

\* repr(s) of a str without quotes and backslashes
ReprStr(s) == "'" \o Str([i \in 1..Len(s) |-> ReprChar(s[i])]) \o "'"

\* sep.join(parts) for strings
RECURSIVE JoinStr(_, _)
JoinStr(parts, sep) ==
    IF parts = <<>> THEN ""
    ELSE IF Len(parts) = 1 THEN parts[1]
    ELSE parts[1] \o sep \o JoinStr(Tail(parts), sep)

----------------------------------------------------------------------------
(* More text: the str methods the validators use *)

\* s.rstrip("/")
RECURSIVE RStripSlash(_)
RStripSlash(s) ==
    IF s # <<>> /\ s[Len(s)] = "/" THEN RStripSlash(SubSeq(s, 1, Len(s) - 1)) ELSE s

\* s.lstrip("/")
RECURSIVE LStripSlash(_)
LStripSlash(s) ==
    IF s # <<>> /\ Head(s) = "/" THEN LStripSlash(Tail(s)) ELSE s

\* s.replace(old, new) for one-character old and new
ReplaceChar(s, old, new) == [i \in 1..Len(s) |-> IF s[i] = old THEN new ELSE s[i]]

\* s.find(ch): the first index of ch in s, counted from 1, or 0
Find(s, ch) ==
    IF \E i \in 1..Len(s) : s[i] = ch
    THEN CHOOSE i \in 1..Len(s) : s[i] = ch /\ \A j \in 1..(i - 1) : s[j] # ch
    ELSE 0

\* s.split(sep) for a one-character separator
RECURSIVE Split(_, _)
Split(s, sep) ==
    LET i == Find(s, sep) IN
    IF i = 0 THEN <<s>>
    ELSE <<SubSeq(s, 1, i - 1)>> \o Split(SubSeq(s, i + 1, Len(s)), sep)

\* sep.join(parts)
RECURSIVE Join(_, _)
Join(parts, sep) ==
    IF parts = <<>> THEN <<>>
    ELSE IF Len(parts) = 1 THEN parts[1]
    ELSE parts[1] \o sep \o Join(Tail(parts), sep)


\* str.lower() on ASCII text
LowerChar(ch) ==
    IF \E i \in 1..Len(UpperLetters) : UpperLetters[i] = ch
    THEN LowerLetters[CHOOSE i \in 1..Len(UpperLetters) : UpperLetters[i] = ch]
    ELSE ch

Lower(s) == [i \in 1..Len(s) |-> LowerChar(s[i])]

AsciiLetters == {UpperLetters[i] : i \in 1..26} \cup {LowerLetters[i] : i \in 1..26}
AsciiDigits == {Digit[i] : i \in 1..10}

----------------------------------------------------------------------------
(* base64, as b64encode and b64decode(validate=True) compute it *)

B64Alphabet == UpperLetters \o LowerLetters \o Digit \o <<"+", "/">>

B64Char(n) == B64Alphabet[n + 1]

B64Index(ch) == (CHOOSE i \in 1..64 : B64Alphabet[i] = ch) - 1

IsB64Char(ch) == \E i \in 1..64 : B64Alphabet[i] = ch

\* base64.b64encode(b).decode("ascii")
RECURSIVE B64Encode(_)
B64Encode(b) ==
    IF b = <<>> THEN <<>>
    ELSE IF Len(b) = 1
    THEN <<B64Char(b[1] \div 4), B64Char((b[1] % 4) * 16), "=", "=">>
    ELSE IF Len(b) = 2
    THEN <<B64Char(b[1] \div 4), B64Char((b[1] % 4) * 16 + b[2] \div 16),
           B64Char((b[2] % 16) * 4), "=">>
    ELSE <<B64Char(b[1] \div 4), B64Char((b[1] % 4) * 16 + b[2] \div 16),
           B64Char((b[2] % 16) * 4 + b[3] \div 64), B64Char(b[3] % 64)>>
         \o B64Encode(SubSeq(b, 4, Len(b)))

\* the leading run of alphabet characters
RECURSIVE B64DataLen(_)
B64DataLen(s) ==
    IF s # <<>> /\ IsB64Char(Head(s)) THEN 1 + B64DataLen(Tail(s)) ELSE 0

\* what b64decode(s, validate=True) accepts: alphabet characters, then the
\* padding that completes the last group of four, and nothing else
\* (text with "=" beyond the padding its length needs is accepted by some
\* versions of binascii and rejected by others; it is taken as invalid)
B64Valid(s) ==
    LET Padded(n) ==
            /\ \A i \in (n + 1)..Len(s) : s[i] = "="
            /\ n % 4 # 1
            /\ Len(s) - n = (4 - (n % 4)) % 4
    IN Padded(B64DataLen(s))

\* the bytes of the data characters d (no padding)
RECURSIVE B64DecodeData(_)
B64DecodeData(d) ==
    IF Len(d) < 2 THEN <<>>
    ELSE LET c1 == B64Index(d[1])
             c2 == B64Index(d[2])
             b1 == c1 * 4 + c2 \div 16
         IN IF Len(d) = 2 THEN <<b1>>
            ELSE LET c3 == B64Index(d[3])
                     b2 == (c2 % 16) * 16 + c3 \div 4
                 IN IF Len(d) = 3 THEN <<b1, b2>>
                    ELSE <<b1, b2, (c3 % 4) * 64 + B64Index(d[4])>>
                         \o B64DecodeData(SubSeq(d, 5, Len(d)))

\* base64.b64decode(s, validate=True) of text it accepts
B64DecodeShort(s) == B64DecodeData(SubSeq(s, 1, B64DataLen(s) - 1))
B64Decode(s) == B64DecodeData(SubSeq(s, 1, B64DataLen(s)))

----------------------------------------------------------------------------
(* settings.py and artifactory_client.py: base URL, repository and path *)

Fail(message) == [ok |-> FALSE, val |-> PyNone, err |-> message]
Pass(v) == [ok |-> TRUE, val |-> v, err |-> ""]

InvalidBaseUrl(name, value) ==
    "Invalid " \o name \o ": " \o ReprStr(value) \o ". Expected an absolute HTTP/HTTPS URL."
MissingBaseUrl ==
    "Missing Artifactory base URL. Set ARTIFACTORY_BASE_URL or pass base_url in the tool call."
EmptyRepository == "Repository cannot be empty."
InvalidRepository(repository) ==
    "Invalid repository " \o ReprStr(repository) \o ". Use letters, numbers, '.', '_' or '-'."
PathHasDotDot == "Path cannot contain '..' segments."

SchemeChars == AsciiLetters \cup AsciiDigits \cup {"+", "-", "."}

\* urllib.parse.urlparse, for text without '?', '#', ';' and brackets
UrlParse(url) ==
    LET Authority(scheme, after, k) ==
            [scheme |-> scheme,
             netloc |-> IF k = 0 THEN after ELSE SubSeq(after, 1, k - 1),
             path |-> IF k = 0 THEN <<>> ELSE SubSeq(after, k, Len(after))]
        AfterScheme(scheme, rest) ==
            IF Len(rest) >= 2 /\ rest[1] = "/" /\ rest[2] = "/"
            THEN Authority(scheme, SubSeq(rest, 3, Len(rest)),
                           Find(SubSeq(rest, 3, Len(rest)), "/"))
            ELSE [scheme |-> scheme, netloc |-> <<>>, path |-> rest]
        Scheme(i) ==
            IF /\ i > 1
               /\ url[1] \in AsciiLetters
               /\ \A j \in 1..(i - 1) : url[j] \in SchemeChars
            THEN AfterScheme(Lower(SubSeq(url, 1, i - 1)), SubSeq(url, i + 1, Len(url)))
            ELSE AfterScheme(<<>>, url)
    IN Scheme(Find(url, ":"))

\* settings._validate_base_url
ValidateBaseUrl(value, name) ==
    LET Checked(candidate, parsed) ==
            IF parsed.scheme \notin {<<"h", "t", "t", "p">>, <<"h", "t", "t", "p", "s">>} \/ parsed.netloc = <<>>
            THEN Fail(InvalidBaseUrl(name, value))
            ELSE IF parsed.path \in {<<>>, <<"/">>}
            THEN Pass(PyStr(parsed.scheme \o <<":", "/", "/">> \o parsed.netloc \o <<"/", "a", "r", "t", "i", "f", "a", "c", "t", "o", "r", "y">>))
            ELSE Pass(PyStr(candidate))
    IN Checked(RStripSlash(Strip(value)), UrlParse(RStripSlash(Strip(value))))

\* server._validate_base_url: a URL without a path is kept as it is
ServerValidateBaseUrl(value, name) ==
    LET Checked(candidate, parsed) ==
            IF parsed.scheme \notin {<<"h", "t", "t", "p">>, <<"h", "t", "t", "p", "s">>} \/ parsed.netloc = <<>>
            THEN Fail(InvalidBaseUrl(name, value))
            ELSE Pass(PyStr(candidate))
    IN Checked(RStripSlash(Strip(value)), UrlParse(RStripSlash(Strip(value))))

\* _resolve_base_url of artifactory_client.py and of server.py; base_url is
\* None or a str, env holds the settings and the module that runs
ResolveBaseUrl(base_url, env) ==
    IF base_url.t = "str" /\ base_url.s # <<>> /\ Strip(base_url.s) # <<>>
    THEN IF env.entry = "server" THEN ServerValidateBaseUrl(base_url.s, "base_url")
         ELSE ValidateBaseUrl(base_url.s, "base_url")
    ELSE IF /\ env.settings.artifactory_base_url.t = "str"
            /\ env.settings.artifactory_base_url.s # <<>>
    THEN Pass(env.settings.artifactory_base_url)
    ELSE Fail(MissingBaseUrl)

RepoChars == AsciiLetters \cup AsciiDigits \cup {".", "_", "-"}

\* settings._validate_repository
ValidateRepository(repository) ==
    LET Checked(repo) ==
            IF repo = <<>> THEN Fail(EmptyRepository)
            ELSE IF ~(\A i \in 1..Len(repo) : repo[i] \in RepoChars)
            THEN Fail(InvalidRepository(repository))
            ELSE Pass(PyStr(repo))
    IN Checked(Strip(repository))

\* [segment for segment in segments if segment and segment != "."]
RECURSIVE KeptSegments(_)
KeptSegments(segments) ==
    IF segments = <<>> THEN <<>>
    ELSE IF Head(segments) # <<>> /\ Head(segments) # <<".">>
    THEN <<Head(segments)>> \o KeptSegments(Tail(segments))
    ELSE KeptSegments(Tail(segments))

\* settings._validate_path
ValidatePathUnchecked(path) == Pass(PyStr(ReplaceChar(Strip(path), "\\", "/")))
ValidatePath(path) ==
    LET Kept(parts) ==
            IF \E i \in 1..Len(parts) : parts[i] = <<".", ".">> THEN Fail(PathHasDotDot)
            ELSE Pass(PyStr(Join(parts, <<"/">>)))
        Checked(cleaned) ==
            IF cleaned \in {<<>>, <<".">>, <<"/">>} THEN Pass(PyStr(<<>>))
            ELSE Kept(KeptSegments(Split(cleaned, "/")))
    IN Checked(ReplaceChar(Strip(path), "\\", "/"))

\* the ArtifactoryPath (or ArtifactorySaaSPath) built for a URL
PyArtifactoryPath(cls, url, repo, relative) ==
    Val("artifactory_path", cls, "", 0, url, <<>>, <<PyStr(repo), PyStr(relative)>>)

PathClass(cfg) ==
    IF cfg.artifactory_use_saas_path THEN "ArtifactorySaaSPath" ELSE "ArtifactoryPath"

\* artifactory_client._create_path
CreatePath(base_url, repository, item_path, cfg) ==
    LET Built(repo, relative) ==
            Pass(PyArtifactoryPath(PathClass(cfg),
                                   IF relative # <<>>
                                   THEN base_url \o <<"/">> \o repo \o <<"/">> \o relative
                                   ELSE base_url \o <<"/">> \o repo,
                                   repo, relative))
        InRepo(repo, relative) ==
            IF ~relative.ok THEN relative ELSE Built(repo.val.s, relative.val.s)
        Repo(repo) ==
            IF ~repo.ok THEN repo ELSE InRepo(repo, ValidatePath(item_path))
    IN Repo(ValidateRepository(repository))

\* artifactory_client._path_in_repo
PathInRepo(path) == LStripSlash(path.xs[2].s)

----------------------------------------------------------------------------
(* _HandleStore: what each method computes, given the fields it reads *)

\* put: self._counter += 1
PutCounterStuck(c) == c
StorePutCounter(c) == c + 1

\* put: handle_id = f"h{self._counter}"
FormatHandleId(c) == <<"h">> \o DecStr(c)

\* put: self._items[handle_id] = obj
StorePutItems(d, c, obj) == DictSet(d, FormatHandleId(c), obj)

\* get: handle_id in self._items
StoreGetFound(d, handle_id) == DictHas(d, handle_id)

\* get: self._items[handle_id]
GetFirstItem(d, handle_id) == d[1].v
StoreGetValue(d, handle_id) == DictGet(d, handle_id)

\* drop: self._items.pop(handle_id, None) is not None
StoreDropResult(d, handle_id) == DictPopValue(d, handle_id, PyNone).t # "none"

\* drop: what pop leaves in self._items
DropAllItems(d, handle_id) == <<>>
StoreDropItems(d, handle_id) == DictWithout(d, handle_id)

\* list: one HandleInfo per entry, in the dict's order
HandleInfo(handle_id, obj) ==
    [handle_id |-> handle_id, class_name |-> TypeName(obj), summary |-> Repr(obj)]

StoreList(d) == [i \in 1..Len(d) |-> HandleInfo(d[i].k, d[i].v)]

\* count: len(self._items)
StoreCount(d) == Len(d)

\* get: f"Unknown handle_id {handle_id!r}."
UnknownHandle(handle_id) == "Unknown handle_id " \o ReprStr(handle_id) \o "."
EmptyHandleId == "handle_id cannot be empty."

----------------------------------------------------------------------------
(* Inputs *)

Threads == {1, 2}

H1 == <<"h", "1">>
H2 == <<"h", "2">>
H3 == <<"h", "3">>

\* the objects handed to put
ObjA == PyObject("Repo", "a")
ObjB == PyObject("Build", "b")
PutInputs == {PyNone, ObjA, ObjB}

\* the handle ids callers send
IdInputs == {H1, H2, H3, <<" ", "h", "1", "\n">>, <<" ", "\t">>, <<>>}

IssuedIds == {put_log[i].id : i \in 1..Len(put_log)}

\* history: what the logs become when drop runs on handle_id
DropLogged(handle_id) ==
    IF handle_id \in IssuedIds THEN drop_log \cup {handle_id} ELSE drop_log

\* ServerSettings.from_env() of an empty environment
DefaultSettings ==
    [artifactory_base_url |-> PyNone,
     artifactory_use_saas_path |-> FALSE,
     mcp_default_max_items |-> 200]

----------------------------------------------------------------------------
(* The state after import: an empty store *)

Init ==
    /\ entry \in {"tools", "server"}
    /\ settings = DefaultSettings
    /\ items = <<>>
    /\ counter = 0
    /\ lock = 0
    /\ pc = [t \in Threads |-> "idle"]
    /\ loc = [t \in Threads |-> [op |-> "none"]]
    /\ last = [op |-> "init"]
    /\ put_log = <<>>
    /\ drop_log = {}
    /\ remote = {}

----------------------------------------------------------------------------
(* One call at a time: each store method and each tool runs to completion *)

threadVars == <<lock, pc, loc>>

Put(obj) ==
    /\ counter < MaxCounter
    /\ counter' = StorePutCounter(counter)
    /\ items' = StorePutItems(items, counter', obj)
    /\ last' = [op |-> "put", obj |-> obj, id |-> FormatHandleId(counter')]
    /\ put_log' = Append(put_log, [id |-> FormatHandleId(counter'), obj |-> obj])
    /\ UNCHANGED <<config, remote, drop_log, threadVars>>

Get(handle_id) ==
    /\ last' = IF StoreGetFound(items, handle_id)
               THEN [op |-> "get", id |-> handle_id, ok |-> TRUE,
                     val |-> StoreGetValue(items, handle_id), err |-> ""]
               ELSE [op |-> "get", id |-> handle_id, ok |-> FALSE,
                     val |-> PyNone, err |-> UnknownHandle(handle_id)]
    /\ UNCHANGED <<config, remote, items, counter, put_log, drop_log, threadVars>>

Drop(handle_id) ==
    /\ items' = StoreDropItems(items, handle_id)
    /\ last' = [op |-> "drop", id |-> handle_id, val |-> StoreDropResult(items, handle_id)]
    /\ drop_log' = DropLogged(handle_id)
    /\ UNCHANGED <<config, remote, counter, put_log, threadVars>>

List ==
    /\ last' = [op |-> "list", val |-> StoreList(items)]
    /\ UNCHANGED <<config, remote, items, counter, put_log, drop_log, threadVars>>

\* only handles.py's store has count
Count ==
    /\ entry = "tools"
    /\ last' = [op |-> "count", val |-> StoreCount(items)]
    /\ UNCHANGED <<config, remote, items, counter, put_log, drop_log, threadVars>>

\* tools.py drop_artifactory_handle -> handles.py _drop_handle_sync
DropHandle(handle_id) ==
    /\ entry = "tools"
    /\ LET normalized == Strip(handle_id) IN
       IF normalized = <<>>
       THEN /\ last' = [op |-> "drop_handle", arg |-> handle_id, ok |-> FALSE,
                        err |-> EmptyHandleId]
            /\ UNCHANGED <<items, drop_log>>
       ELSE /\ items' = StoreDropItems(items, normalized)
            /\ last' = [op |-> "drop_handle", arg |-> handle_id, ok |-> TRUE, err |-> "",
                        val |-> [handle_id |-> normalized,
                                 dropped |-> TRUE,
                                 existed |-> StoreDropResult(items, normalized),
                                 remaining_handles |-> StoreCount(items')]]
            /\ drop_log' = DropLogged(normalized)
    /\ UNCHANGED <<config, remote, counter, put_log, threadVars>>

\* server.py drop_artifactory_handle
ServerDropHandle(handle_id) ==
    /\ entry = "server"
    /\ items' = StoreDropItems(items, handle_id)
    /\ last' = [op |-> "server_drop_handle", arg |-> handle_id, ok |-> TRUE, err |-> "",
                val |-> [handle_id |-> handle_id,
                         dropped |-> StoreDropResult(items, handle_id)]]
    /\ drop_log' = DropLogged(handle_id)
    /\ UNCHANGED <<config, remote, counter, put_log, threadVars>>

Next ==
    \/ \E obj \in PutInputs : Put(obj)
    \/ \E h \in IdInputs : Get(h)
    \/ \E h \in IdInputs : Drop(h)
    \/ List
    \/ Count
    \/ \E h \in IdInputs : DropHandle(h)
    \/ \E h \in IdInputs : ServerDropHandle(h)

Spec == Init /\ [][Next]_vars

----------------------------------------------------------------------------
(* Claims about the handle store, one call at a time *)

\* the id text the k-th put is expected to return, written out
HandleText ==
    << <<"h", "1">>, <<"h", "2">>, <<"h", "3">>, <<"h", "4">>, <<"h", "5">>, <<"h", "6">> >>

\* C1: Get(h) of an id a Put returned gives the object that Put stored, whatever
\* other calls ran in between, until Drop(h) has run; from then on Get(h) fails
\* with the unknown-handle error.
C1_GetUntilDrop ==
    last.op = "get" =>
        \A i \in 1..Len(put_log) :
            put_log[i].id = last.id =>
                IF last.id \in drop_log
                THEN ~last.ok /\ last.err = UnknownHandle(last.id)
                ELSE last.ok /\ last.val = put_log[i].obj

\* a Get of a dropped id, with another handle still stored
C1_Witness ==
    /\ last.op = "get"
    /\ last.id \in drop_log
    /\ ~last.ok
    /\ Len(items) >= 1

\* C2: the k-th Put returns "h" followed by k in decimal, and no Put returns an
\* id an earlier Put returned, dropped or not.
C2_IdsFromCounter ==
    /\ \A i \in 1..Len(put_log) :
           i <= Len(HandleText) => put_log[i].id = HandleText[i]
    /\ \A i, j \in 1..Len(put_log) : i < j => put_log[i].id # put_log[j].id

\* a Put that follows the drop of an earlier id
C2_Witness ==
    /\ last.op = "put"
    /\ Len(put_log) >= 2
    /\ put_log[1].id \in drop_log
    /\ last.id = <<"h", "2">>

\* C5 as stated: every drop_handle call reports dropped = true, and for an id
\* a Put returned the first call reports existed = true and the next existed =
\* false.
C5_DropHandleIdempotent ==
    [][\A h \in IdInputs :
          /\ (DropHandle(h) /\ last'.ok) =>
                /\ last'.val.dropped
                /\ last'.val.existed = (Strip(h) \in IssuedIds \ drop_log)
          /\ ServerDropHandle(h) => last'.val.dropped
      ]_vars

\* C6 as stated: Drop(id) returns true exactly when id was a key of the store
\* just before the call, whatever was stored under it.
C6_DropReportsPresence ==
    [][\A h \in IdInputs : Drop(h) => (last'.val = DictHas(items, h))]_vars

\* C7: the ids in the store change only by Put, which adds exactly one new
\* id, and by Drop, which removes at most the id it names; Get, List, Count, a
\* Drop of an absent id and a drop_handle call rejected for a blank id change
\* neither the entries nor the counter; an entry that stays keeps its object.
C7_Frame ==
    [][/\ \A obj \in PutInputs :
             (last'.op = "put" /\ Put(obj)) =>
                 \E id \in DictKeys(items') :
                     /\ id \notin DictKeys(items)
                     /\ DictKeys(items') = DictKeys(items) \cup {id}
       /\ \A h \in IdInputs :
             /\ (\/ last'.op = "drop" /\ Drop(h)
                 \/ last'.op = "server_drop_handle" /\ ServerDropHandle(h)) =>
                    /\ DictKeys(items') \subseteq DictKeys(items)
                    /\ DictKeys(items) \ DictKeys(items') \subseteq {h}
                    /\ counter' = counter
                    /\ (~DictHas(items, h) => items' = items)
             /\ (last'.op = "drop_handle" /\ DropHandle(h)) =>
                    /\ DictKeys(items') \subseteq DictKeys(items)
                    /\ DictKeys(items) \ DictKeys(items') \subseteq {Strip(h)}
                    /\ counter' = counter
                    /\ (~last'.ok \/ ~DictHas(items, Strip(h)) => items' = items)
             /\ (last'.op = "get" /\ Get(h)) => (items' = items /\ counter' = counter)
       /\ (\/ last'.op = "list" /\ List
           \/ last'.op = "count" /\ Count) => (items' = items /\ counter' = counter)
       /\ \A k \in DictKeys(items) \cap DictKeys(items') :
             DictGet(items', k) = DictGet(items, k)
      ]_vars

\* a drop that removes one of two stored handles
C7_Witness ==
    /\ last.op \in {"drop", "drop_handle", "server_drop_handle"}
    /\ drop_log # {}
    /\ Len(items) >= 1
    /\ Len(put_log) >= 2

----------------------------------------------------------------------------
(* Threads.  The tool runtime runs each blocking call on a worker thread    *)
(* (anyio.to_thread.run_sync), so store methods of different calls          *)
(* interleave statement by statement; every method body runs inside         *)
(* `with self._lock:`.                                                      *)

\* the ids the concurrent callers send
ThreadIdInputs == {H1, H2}

\* the objects the concurrent callers put
ThreadPutInputs == {ObjA, ObjB}

KeyErrorText == "KeyError"
DictChangedSize == "dictionary changed size during iteration"

\* with self._lock: a thread enters when no thread holds the lock
EnterUnlocked(t) == TRUE
CanEnter(t) == lock = 0

Goto(t, label, locals) ==
    /\ pc' = [pc EXCEPT ![t] = label]
    /\ loc' = [loc EXCEPT ![t] = locals]

Return(t) == Goto(t, "idle", [op |-> "none"])

\* a worker thread starts a store method and reaches its `with self._lock:`
T_Call(t, locals) ==
    /\ pc[t] = "idle"
    /\ locals.op = "put" => counter + Cardinality({u \in Threads : loc[u].op = "put"}) < MaxCounter
    /\ locals.op = "count" => entry = "tools"
    /\ Goto(t, "wait", locals)
    /\ UNCHANGED <<config, remote, items, counter, lock, last, put_log, drop_log>>

FirstLabel(op) ==
    CASE op = "put" -> "put_inc"
      [] op = "get" -> "get_check"
      [] op = "drop" -> "drop_pop"
      [] op = "list" -> "list_iter"
      [] op = "count" -> "count_len"

\* the thread takes the lock and enters the method body
T_Enter(t) ==
    /\ pc[t] = "wait"
    /\ CanEnter(t)
    /\ lock' = t
    /\ Goto(t, FirstLabel(loc[t].op),
            IF loc[t].op = "list"
            THEN [op |-> "list", output |-> <<>>, i |-> 1, size |-> Len(items)]
            ELSE loc[t])
    /\ UNCHANGED <<config, remote, items, counter, last, put_log, drop_log>>

\* put, line 17
T_PutInc(t) ==
    /\ pc[t] = "put_inc"
    /\ counter' = StorePutCounter(counter)
    /\ Goto(t, "put_insert", loc[t])
    /\ UNCHANGED <<config, remote, items, lock, last, put_log, drop_log>>

\* put, lines 18-20: format the id, insert, leave the lock, return the id
T_PutInsert(t) ==
    /\ pc[t] = "put_insert"
    /\ items' = StorePutItems(items, counter, loc[t].obj)
    /\ last' = [op |-> "put", obj |-> loc[t].obj, id |-> FormatHandleId(counter)]
    /\ put_log' = Append(put_log, [id |-> FormatHandleId(counter), obj |-> loc[t].obj])
    /\ lock' = 0
    /\ Return(t)
    /\ UNCHANGED <<config, remote, counter, drop_log>>

\* get, lines 24-25
T_GetCheck(t) ==
    /\ pc[t] = "get_check"
    /\ IF StoreGetFound(items, loc[t].id)
       THEN /\ Goto(t, "get_read", loc[t])
            /\ UNCHANGED <<lock, last>>
       ELSE /\ last' = [op |-> "get", id |-> loc[t].id, ok |-> FALSE,
                        val |-> PyNone, err |-> UnknownHandle(loc[t].id)]
            /\ lock' = 0
            /\ Return(t)
    /\ UNCHANGED <<config, remote, items, counter, put_log, drop_log>>

\* get, line 26: a key that is gone by now makes the subscript raise KeyError
T_GetRead(t) ==
    /\ pc[t] = "get_read"
    /\ last' = IF DictHas(items, loc[t].id)
               THEN [op |-> "get", id |-> loc[t].id, ok |-> TRUE,
                     val |-> StoreGetValue(items, loc[t].id), err |-> ""]
               ELSE [op |-> "get", id |-> loc[t].id, ok |-> FALSE,
                     val |-> PyNone, err |-> KeyErrorText]
    /\ lock' = 0
    /\ Return(t)
    /\ UNCHANGED <<config, remote, items, counter, put_log, drop_log>>

\* drop, line 30: pop is one dict operation
T_DropPop(t) ==
    /\ pc[t] = "drop_pop"
    /\ items' = StoreDropItems(items, loc[t].id)
    /\ last' = [op |-> "drop", id |-> loc[t].id, val |-> StoreDropResult(items, loc[t].id)]
    /\ drop_log' = DropLogged(loc[t].id)
    /\ lock' = 0
    /\ Return(t)
    /\ UNCHANGED <<config, remote, counter, put_log>>

\* list, lines 35-43: one turn of the loop; the dict iterator raises
\* RuntimeError when the dict's size changed since the loop began
T_ListIter(t) ==
    /\ pc[t] = "list_iter"
    /\ IF Len(items) # loc[t].size
       THEN /\ last' = [op |-> "list", ok |-> FALSE, val |-> <<>>, err |-> DictChangedSize]
            /\ lock' = 0
            /\ Return(t)
       ELSE IF loc[t].i <= Len(items)
       THEN /\ Goto(t, "list_iter",
                    [loc[t] EXCEPT
                        !.output = Append(@, HandleInfo(items[loc[t].i].k, items[loc[t].i].v)),
                        !.i = @ + 1])
            /\ UNCHANGED <<lock, last>>
       ELSE /\ last' = [op |-> "list", ok |-> TRUE, val |-> loc[t].output, err |-> ""]
            /\ lock' = 0
            /\ Return(t)
    /\ UNCHANGED <<config, remote, items, counter, put_log, drop_log>>

\* count, line 47
T_CountLen(t) ==
    /\ pc[t] = "count_len"
    /\ last' = [op |-> "count", val |-> StoreCount(items)]
    /\ lock' = 0
    /\ Return(t)
    /\ UNCHANGED <<config, remote, items, counter, put_log, drop_log>>

\* what the concurrent callers ask for
ThreadCalls ==
    {[op |-> "put", obj |-> obj] : obj \in ThreadPutInputs}
        \cup {[op |-> o, id |-> h] : o \in {"get", "drop"}, h \in ThreadIdInputs}
        \cup {[op |-> "list"], [op |-> "count"]}

NextThreads ==
    \E t \in Threads :
        \/ \E call \in ThreadCalls : T_Call(t, call)
        \/ T_Enter(t)
        \/ T_PutInc(t)
        \/ T_PutInsert(t)
        \/ T_GetCheck(t)
        \/ T_GetRead(t)
        \/ T_DropPop(t)
        \/ T_ListIter(t)
        \/ T_CountLen(t)

SpecThreads == Init /\ [][NextThreads]_vars

----------------------------------------------------------------------------
(* Claims about the handle store under concurrent callers *)

PutsInFlight == {t \in Threads : pc[t] = "put_insert"}

\* C3: concurrent Puts each take their own counter value: the ids returned are
\* pairwise distinct, the counter has advanced by one per Put, and every
\* object put is stored under the id its own Put returned until that id is
\* dropped.
C3_ConcurrentPuts ==
    /\ \A i, j \in 1..Len(put_log) : i < j => put_log[i].id # put_log[j].id
    /\ counter = Len(put_log) + Cardinality(PutsInFlight)
    /\ \A i \in 1..Len(put_log) :
           put_log[i].id \notin drop_log =>
               /\ DictHas(items, put_log[i].id)
               /\ DictGet(items, put_log[i].id) = put_log[i].obj

\* two Put calls overlap: one thread is between the increment and the insert
\* while another has called Put and waits for the lock, after an earlier Put
C3_Witness ==
    /\ Len(put_log) >= 1
    /\ \E t, u \in Threads :
          /\ pc[t] = "put_insert"
          /\ pc[u] = "wait"
          /\ loc[u].op = "put"
          /\ loc[u].obj # loc[t].obj

\* the object a completed Put stored under handle_id
PutObject(handle_id) ==
    put_log[CHOOSE i \in 1..Len(put_log) : put_log[i].id = handle_id].obj

\* C4: a Get, List or Count that runs while other threads Put and Drop returns
\* what the store held at the instant it returns: Get the entry's object or
\* the unknown-handle error, List exactly the stored entries, each an id a
\* completed Put returned with that object's type label and summary, Count the
\* number of entries.
C4_ReadersSeeOneInstant ==
    [][\A t \in Threads :
          /\ ((T_GetCheck(t) \/ T_GetRead(t)) /\ pc'[t] = "idle") =>
                IF DictHas(items, loc[t].id)
                THEN /\ last'.ok
                     /\ last'.val = DictGet(items, loc[t].id)
                     /\ loc[t].id \in IssuedIds
                     /\ last'.val = PutObject(loc[t].id)
                ELSE ~last'.ok /\ last'.err = UnknownHandle(loc[t].id)
          /\ (T_ListIter(t) /\ pc'[t] = "idle") =>
                /\ last'.ok
                /\ last'.val = StoreList(items)
                /\ \A i \in 1..Len(last'.val) :
                      /\ last'.val[i].handle_id \in IssuedIds
                      /\ last'.val[i] = HandleInfo(last'.val[i].handle_id,
                                                   PutObject(last'.val[i].handle_id))
          /\ T_CountLen(t) => last'.val = Len(items)
      ]_vars

\* a List has returned an entry while another thread had called Drop on that
\* very id and was waiting for the lock
C4_Witness ==
    /\ last.op = "list"
    /\ last.ok
    /\ Len(last.val) >= 1
    /\ \E t \in Threads :
          /\ pc[t] = "wait"
          /\ loc[t].op = "drop"
          /\ loc[t].id = last.val[1].handle_id

----------------------------------------------------------------------------
(* Order of text *)

\* the characters of identifiers, in code-point order
CharOrder == Digit \o UpperLetters \o <<"_">> \o LowerLetters

Ord(ch) == CHOOSE i \in 1..Len(CharOrder) : CharOrder[i] = ch

\* a < b, as Python orders str
RECURSIVE StrLess(_, _)
StrLess(a, b) ==
    IF b = <<>> THEN FALSE
    ELSE IF a = <<>> THEN TRUE
    ELSE IF Head(a) = Head(b) THEN StrLess(Tail(a), Tail(b))
    ELSE Ord(Head(a)) < Ord(Head(b))

\* sorted(names) of a set of str
SortedNames(names) ==
    [r \in 1..Cardinality(names) |->
        CHOOSE x \in names : Cardinality({y \in names : StrLess(y, x)}) = r - 1]

----------------------------------------------------------------------------
(* difflib, as get_close_matches uses it: no junk, and no autojunk below   *)
(* 200 characters                                                          *)

\* how far a[i..ahi] and b[j..bhi] agree from their first characters
RECURSIVE RunLen(_, _, _, _, _, _)
RunLen(a, b, i, j, ahi, bhi) ==
    IF i <= ahi /\ j <= bhi /\ a[i] = b[j]
    THEN 1 + RunLen(a, b, i + 1, j + 1, ahi, bhi)
    ELSE 0

\* the least member of a set of numbers that is not empty
Least(S) == CHOOSE x \in S : \A y \in S : x <= y

\* SequenceMatcher.find_longest_match on a[alo..ahi], b[blo..bhi] (both not
\* empty): the longest block; of the longest the one starting earliest in a,
\* and of those the one starting earliest in b
FindLongestMatch(a, b, alo, ahi, blo, bhi) ==
    LET starts == (alo..ahi) \X (blo..bhi)
        Earliest(size, longest, i) ==
            [i |-> i, j |-> Least({q \in blo..bhi : size[<<i, q>>] = longest}),
             size |-> longest]
        Longest(size, longest) ==
            Earliest(size, longest,
                     Least({p[1] : p \in {q \in starts : size[q] = longest}}))
        Sized(size) ==
            Longest(size, CHOOSE k \in 0..(ahi - alo + 1) :
                              /\ \E p \in starts : size[p] = k
                              /\ \A p \in starts : size[p] <= k)
    IN Sized([p \in starts |-> RunLen(a, b, p[1], p[2], ahi, bhi)])

\* the total size of SequenceMatcher.get_matching_blocks(): the longest
\* match, then the same to its left and to its right
RECURSIVE MatchedSize(_, _, _, _, _, _)
MatchedSize(a, b, alo, ahi, blo, bhi) ==
    LET Around(m) ==
            IF m.size = 0 THEN 0
            ELSE m.size
                 + MatchedSize(a, b, alo, m.i - 1, blo, m.j - 1)
                 + MatchedSize(a, b, m.i + m.size, ahi, m.j + m.size, bhi)
    IN IF alo > ahi \/ blo > bhi THEN 0
       ELSE Around(FindLongestMatch(a, b, alo, ahi, blo, bhi))

\* SequenceMatcher(None, a, b).ratio() = 2.0 * matches / length, kept as a
\* fraction (1.0 when both are empty)
Ratio(a, b) ==
    IF Len(a) + Len(b) = 0 THEN [num |-> 1, den |-> 1]
    ELSE [num |-> 2 * MatchedSize(a, b, 1, Len(a), 1, Len(b)), den |-> Len(a) + Len(b)]

\* r >= cutoff
RatioAtLeast(r, cutoff) == r.num * cutoff.den >= cutoff.num * r.den

\* (score, x) > (score', y), as heapq.nlargest orders the scored names
ScoredAbove(p, q) ==
    \/ p.score.num * q.score.den > q.score.num * p.score.den
    \/ /\ p.score.num * q.score.den = q.score.num * p.score.den
       /\ StrLess(q.x, p.x)

\* difflib.get_close_matches(word, possibilities, n, cutoff): the n best of
\* the possibilities whose ratio reaches the cutoff, best first.
\* (real_quick_ratio and quick_ratio are upper bounds of ratio, so they
\* exclude nothing that ratio admits.)
GetCloseMatches(word, possibilities, n, cutoff) ==
    LET Best(result, k) ==
            [r \in 1..k |->
                (CHOOSE p \in result :
                     Cardinality({q \in result : ScoredAbove(q, p)}) = r - 1).x]
        NLargest(result) ==
            Best(result, IF Cardinality(result) < n THEN Cardinality(result) ELSE n)
        Scored(score) ==
            NLargest({[score |-> score[i], x |-> possibilities[i]] :
                         i \in {j \in 1..Len(possibilities) :
                                   RatioAtLeast(score[j], cutoff)}})
    IN Scored([i \in 1..Len(possibilities) |-> Ratio(possibilities[i], word)])

\* bridge._render_method_suggestions
RenderMethodSuggestions(name, candidates) ==
    LET Rendered(matches) ==
            IF matches = <<>> THEN ""
            ELSE IF Len(matches) = 1
            THEN " Did you mean " \o ReprStr(matches[1]) \o "?"
            ELSE " Did you mean one of: "
                 \o JoinStr([i \in 1..Len(matches) |-> ReprStr(matches[i])], ", ")
                 \o "?"
    IN IF candidates = <<>> THEN ""
       ELSE Rendered(GetCloseMatches(name, candidates, 3, [num |-> 1, den |-> 2]))

----------------------------------------------------------------------------
(* Errors: the exception a function raises *)

NoError == [cls |-> "", message |-> ""]
ValueError(message) == [cls |-> "ValueError", message |-> message]

----------------------------------------------------------------------------
(* JSON objects: a dict whose keys are str *)

Field(k, v) == PyEntry(PyStr(k), v)

\* key in mapping
MapHas(m, k) == \E i \in 1..Len(m) : m[i].xs[1] = PyStr(k)

\* mapping.get(key, default)
MapGet(m, k, default) ==
    IF MapHas(m, k) THEN m[CHOOSE i \in 1..Len(m) : m[i].xs[1] = PyStr(k)].xs[2]
    ELSE default

\* mapping[key] = value
MapSet(m, k, v) ==
    IF MapHas(m, k)
    THEN [i \in 1..Len(m) |-> IF m[i].xs[1] = PyStr(k) THEN Field(k, v) ELSE m[i]]
    ELSE Append(m, Field(k, v))

\* a dict filled key by key, in order
RECURSIVE MapBuild(_, _, _)
MapBuild(acc, keys, vals) ==
    IF keys = <<>> THEN acc
    ELSE MapBuild(MapSet(acc, Head(keys), Head(vals)), Tail(keys), Tail(vals))

\* str(key) of a dict key
StrOf(v) ==
    CASE v.t = "str" -> v.s
      [] v.t = "int" -> DecStr(v.n)
      [] v.t = "bool" -> IF v.n = 1 THEN <<"T", "r", "u", "e">> ELSE <<"F", "a", "l", "s", "e">>
      [] v.t = "none" -> <<"N", "o", "n", "e">>
      [] OTHER -> Repr(v)

----------------------------------------------------------------------------
(* _decode_json_argument and _decode_special_argument, the same text in    *)
(* bridge.py and server.py.  env holds what decoding reads: the store's    *)
(* items, the settings and the module that runs.  events lists the calls   *)
(* decoding makes, in order.                                               *)

DecodeOk(v, events) == [ok |-> TRUE, val |-> v, err |-> NoError, events |-> events]
DecodeFail(err, events) == [ok |-> FALSE, val |-> PyNone, err |-> err, events |-> events]

\* the __handle_id__ branch
DecodeHandleRefAsText(handle_id, env) == DecodeOk(handle_id, <<>>)
DecodeHandleRef(handle_id, env) ==
    IF handle_id.t # "str"
    THEN DecodeFail(ValueError("__handle_id__ must be a string."), <<>>)
    ELSE IF StoreGetFound(env.items, handle_id.s)
    THEN DecodeOk(StoreGetValue(env.items, handle_id.s), <<"_HANDLE_STORE.get">>)
    ELSE DecodeFail(ValueError(UnknownHandle(handle_id.s)), <<"_HANDLE_STORE.get">>)

\* the __bytes_base64__ branch
DecodeBytesRef(encoded) ==
    IF encoded.t # "str"
    THEN DecodeFail(ValueError("__bytes_base64__ must be a string."), <<>>)
    ELSE IF B64Valid(encoded.s)
    THEN DecodeOk(PyBytes(B64Decode(encoded.s)), <<"b64decode">>)
    ELSE DecodeFail(ValueError("Invalid __bytes_base64__ payload."), <<"b64decode">>)

\* the __path__ branch
DecodePathRef(path_ref, env) ==
    LET Created(path) ==
            IF path.ok THEN DecodeOk(path.val, <<"_resolve_base_url", "_create_path">>)
            ELSE DecodeFail(ValueError(path.err), <<"_resolve_base_url", "_create_path">>)
        Resolved(ref_repository, ref_path, resolved) ==
            IF ~resolved.ok THEN DecodeFail(ValueError(resolved.err), <<"_resolve_base_url">>)
            ELSE Created(CreatePath(resolved.val.s, ref_repository.s, ref_path.s,
                                    env.settings))
        Checked(ref_repository, ref_path, ref_base_url) ==
            IF ref_repository.t # "str"
            THEN DecodeFail(ValueError("__path__.repository must be a string."), <<>>)
            ELSE IF ref_path.t # "str"
            THEN DecodeFail(ValueError("__path__.path must be a string."), <<>>)
            ELSE IF ref_base_url.t \notin {"none", "str"}
            THEN DecodeFail(ValueError("__path__.base_url must be a string if provided."),
                            <<>>)
            ELSE Resolved(ref_repository, ref_path,
                          ResolveBaseUrl(ref_base_url, env))
    IN IF path_ref.t # "dict"
       THEN DecodeFail(ValueError("__path__ must be an object."), <<>>)
       ELSE Checked(MapGet(path_ref.xs, <<"r", "e", "p", "o", "s", "i", "t", "o", "r", "y">>, PyNone),
                    MapGet(path_ref.xs, <<"p", "a", "t", "h">>, PyStr(<<>>)),
                    MapGet(path_ref.xs, <<"b", "a", "s", "e", "_", "u", "r", "l">>, PyNone))

RECURSIVE DecodeJsonArgument(_, _)
RECURSIVE DecodeSpecialArgument(_, _)
RECURSIVE DecodeEach(_, _)

\* the values of a list or of a dict decoded left to right; the first failure
\* ends it
DecodeEach(xs, env) ==
    LET Both(first, rest) ==
            [ok |-> rest.ok,
             vals |-> IF rest.ok THEN <<first.val>> \o rest.vals ELSE <<>>,
             err |-> rest.err,
             events |-> first.events \o rest.events]
        AfterFirst(first) ==
            IF ~first.ok
            THEN [ok |-> FALSE, vals |-> <<>>, err |-> first.err, events |-> first.events]
            ELSE Both(first, DecodeEach(Tail(xs), env))
    IN IF xs = <<>> THEN [ok |-> TRUE, vals |-> <<>>, err |-> NoError, events |-> <<>>]
       ELSE AfterFirst(DecodeJsonArgument(Head(xs), env))

\* "key" in mapping and len(mapping) == 1
SpecialAmongKeys(mapping, key) == MapHas(mapping, key)
IsSpecial(mapping, key) == MapHas(mapping, key) /\ Len(mapping) = 1

\* _decode_special_argument(mapping), mapping the entries of a dict
DecodeSpecialArgument(mapping, env) ==
    LET Values(each) ==
            IF each.ok
            THEN DecodeOk(PyDict([i \in 1..Len(mapping) |->
                                     PyEntry(mapping[i].xs[1], each.vals[i])]),
                          each.events)
            ELSE DecodeFail(each.err, each.events)
    IN IF IsSpecial(mapping, <<"_", "_", "h", "a", "n", "d", "l", "e", "_", "i", "d", "_", "_">>)
       THEN DecodeHandleRef(MapGet(mapping, <<"_", "_", "h", "a", "n", "d", "l", "e", "_", "i", "d", "_", "_">>, PyNone), env)
       ELSE IF IsSpecial(mapping, <<"_", "_", "b", "y", "t", "e", "s", "_", "b", "a", "s", "e", "6", "4", "_", "_">>)
       THEN DecodeBytesRef(MapGet(mapping, <<"_", "_", "b", "y", "t", "e", "s", "_", "b", "a", "s", "e", "6", "4", "_", "_">>, PyNone))
       ELSE IF IsSpecial(mapping, <<"_", "_", "p", "a", "t", "h", "_", "_">>)
       THEN DecodePathRef(MapGet(mapping, <<"_", "_", "p", "a", "t", "h", "_", "_">>, PyNone), env)
       ELSE Values(DecodeEach([i \in 1..Len(mapping) |-> mapping[i].xs[2]], env))

\* _decode_json_argument(value)
DecodeJsonArgument(value, env) ==
    LET Items(each) ==
            IF each.ok THEN DecodeOk(PyList(each.vals), each.events)
            ELSE DecodeFail(each.err, each.events)
    IN IF value.t \in {"none", "str", "int", "bool"} THEN DecodeOk(value, <<>>)
       ELSE IF value.t = "list" THEN Items(DecodeEach(value.xs, env))
       ELSE IF value.t = "dict" THEN DecodeSpecialArgument(value.xs, env)
       ELSE DecodeOk(value, <<>>)

----------------------------------------------------------------------------
(* bridge._serialize_value.  st is the store as the encoding has left it   *)
(* so far: its items, its counter, the puts made, and how many items each  *)
(* iterator met has been asked for.                                        *)

\* _HANDLE_STORE.put(value) on st
StorePutUnregistered(st, value) ==
    [st EXCEPT !.counter = StorePutCounter(@),
               !.puts = Append(@, [id |-> FormatHandleId(StorePutCounter(st.counter)),
                                   obj |-> value])]
StorePut(st, value) ==
    LET Stored(c) ==
            [items |-> StorePutItems(st.items, c, value),
             counter |-> c,
             puts |-> Append(st.puts, [id |-> FormatHandleId(c), obj |-> value]),
             taken |-> st.taken]
    IN Stored(StorePutCounter(st.counter))

\* whether next(values) yields a (k+1)-th item, and that item
IterHasNext(values, k) == values.n = 1 \/ k < Len(values.xs)
IterNext(values, k) == values.xs[(k % Len(values.xs)) + 1]

\* the for loop of _iter_with_limit: taken counts the items next() has yielded
RECURSIVE IterLoop(_, _, _, _)
IterLoop(values, max_items, output, taken) ==
    IF ~IterHasNext(values, taken)
    THEN [output |-> output, truncated |-> FALSE, taken |-> taken]
    ELSE IF Len(output) >= max_items
    THEN [output |-> output, truncated |-> TRUE, taken |-> taken + 1]
    ELSE IterLoop(values, max_items, Append(output, IterNext(values, taken)), taken + 1)

\* _iter_with_limit(values, max_items)
IterDrained(values, max_items) ==
    [output |-> SubSeq(values.xs, 1,
                       IF Len(values.xs) < max_items THEN Len(values.xs) ELSE max_items),
     truncated |-> Len(values.xs) > max_items,
     taken |-> Len(values.xs)]
IterWithLimit(values, max_items) == IterLoop(values, max_items, <<>>, 0)

\* list(value)[:max_items]
Uncapped(xs, max_items) == xs
Capped(xs, max_items) ==
    SubSeq(xs, 1, IF Len(xs) < max_items THEN Len(xs) ELSE max_items)

\* isinstance(value, pathlib.Path).  ArtifactoryPath and ArtifactorySaaSPath
\* are pathlib.Path subclasses in dohq-artifactory
IsPathlibPath(value) == value.t \in {"pathlib", "artifactory_path"}

RECURSIVE SerializeValue(_, _, _, _)
RECURSIVE SerializeEach(_, _, _, _)

\* the items of a collection encoded left to right
SerializeEach(xs, max_items, create_handles, st) ==
    LET Both(first, rest) == [outs |-> <<first.out>> \o rest.outs, st |-> rest.st]
        AfterFirst(first) ==
            Both(first, SerializeEach(Tail(xs), max_items, create_handles, first.st))
    IN IF xs = <<>> THEN [outs |-> <<>>, st |-> st]
       ELSE AfterFirst(SerializeValue(Head(xs), max_items, create_handles, st))

\* _serialize_value(value, max_items=max_items, create_handles=create_handles),
\* for max_items >= 0
SerializeValue(value, max_items, create_handles, st) ==
    LET Dict(each) ==
            [out |-> PyDict(MapBuild(<<>>,
                                     [i \in 1..Len(value.xs) |-> StrOf(value.xs[i].xs[1])],
                                     each.outs)),
             st |-> each.st]
        Collection(each) ==
            IF Len(value.xs) > max_items
            THEN [out |-> PyDict(<<Field(<<"t", "y", "p", "e">>, PyStr(<<"t", "r", "u", "n", "c", "a", "t", "e", "d", "_", "l", "i", "s", "t">>)),
                                   Field(<<"i", "t", "e", "m", "s">>, PyList(each.outs)),
                                   Field(<<"t", "o", "t", "a", "l">>, PyInt(Len(value.xs))),
                                   Field(<<"r", "e", "t", "u", "r", "n", "e", "d">>, PyInt(max_items))>>),
                  st |-> each.st]
            ELSE [out |-> PyList(each.outs), st |-> each.st]
        Iterated(limited, each) ==
            [out |-> PyDict(<<Field(<<"t", "y", "p", "e">>, PyStr(<<"i", "t", "e", "r", "a", "t", "o", "r">>)),
                              Field(<<"i", "t", "e", "m", "s">>, PyList(each.outs)),
                              Field(<<"t", "r", "u", "n", "c", "a", "t", "e", "d">>, PyBool(limited.truncated)),
                              Field(<<"r", "e", "t", "u", "r", "n", "e", "d">>, PyInt(Len(limited.output)))>>),
             st |-> each.st]
        Iterator(limited) ==
            Iterated(limited,
                     SerializeEach(limited.output, max_items, create_handles,
                                   [st EXCEPT !.taken = Append(@, limited.taken)]))
        Handle(put) ==
            [out |-> PyDict(<<Field(<<"t", "y", "p", "e">>, PyStr(<<"h", "a", "n", "d", "l", "e">>)),
                              Field(<<"h", "a", "n", "d", "l", "e", "_", "i", "d">>, PyStr(FormatHandleId(put.counter))),
                              Field(<<"c", "l", "a", "s", "s", "_", "n", "a", "m", "e">>, PyStr(<<TypeName(value)>>)),
                              Field(<<"s", "u", "m", "m", "a", "r", "y">>, PyStr(Repr(value)))>>),
             st |-> put]
    IN IF value.t \in {"none", "str", "int", "bool"} THEN [out |-> value, st |-> st]
       ELSE IF value.t = "bytes"
       THEN [out |-> PyDict(<<Field(<<"t", "y", "p", "e">>, PyStr(<<"b", "y", "t", "e", "s">>)),
                              Field(<<"s", "i", "z", "e">>, PyInt(Len(value.b))),
                              Field(<<"b", "a", "s", "e", "6", "4">>, PyStr(B64Encode(value.b)))>>),
             st |-> st]
       ELSE IF IsPathlibPath(value) THEN [out |-> PyStr(value.s), st |-> st]
       ELSE IF value.t = "artifactory_path"
       THEN [out |-> PyDict(<<Field(<<"t", "y", "p", "e">>, PyStr(<<"a", "r", "t", "i", "f", "a", "c", "t", "o", "r", "y", "_", "p", "a", "t", "h">>)),
                              Field(<<"u", "r", "i">>, PyStr(value.s)),
                              Field(<<"r", "e", "p", "o", "s", "i", "t", "o", "r", "y">>, value.xs[1]),
                              Field(<<"p", "a", "t", "h">>, PyStr(PathInRepo(value)))>>),
             st |-> st]
       ELSE IF value.t = "dict"
       THEN Dict(SerializeEach([i \in 1..Len(value.xs) |-> value.xs[i].xs[2]],
                               max_items, create_handles, st))
       ELSE IF value.t \in {"list", "tuple", "set"}
       THEN Collection(SerializeEach(Capped(value.xs, max_items),
                                     max_items, create_handles, st))
       ELSE IF value.t = "iterator" THEN Iterator(IterWithLimit(value, max_items))
       ELSE IF value.t = "exception"
       THEN [out |-> PyDict(<<Field(<<"t", "y", "p", "e">>, PyStr(<<"e", "x", "c", "e", "p", "t", "i", "o", "n">>)),
                              Field(<<"c", "l", "a", "s", "s">>, PyStr(<<TypeName(value)>>)),
                              Field(<<"m", "e", "s", "s", "a", "g", "e">>, PyStr(value.s))>>),
             st |-> st]
       ELSE IF create_handles THEN Handle(StorePut(st, value))
       ELSE [out |-> PyDict(<<Field(<<"t", "y", "p", "e">>, PyStr(<<"r", "e", "p", "r">>)),
                              Field(<<"v", "a", "l", "u", "e">>, PyStr(Repr(value)))>>),
             st |-> st]

----------------------------------------------------------------------------
(* The Artifactory server as the convenience tools reach it through the     *)
(* library's path object.  An artifact is a file or a folder at a URL;      *)
(* `remote` is the set of them.  What the library itself does is outside   *)
(* the program: the operations below are what a server that works does,    *)
(* and NetworkFaults are what it does when it does not.                     *)

Artifact(uri, is_dir, content) == [uri |-> uri, is_dir |-> is_dir, content |-> content]

\* the printable ASCII characters, code 32 to 126; the grave accent (96) is
\* spelled out, a TLA+ string cannot hold it
AsciiChars ==
    <<" ", "!", "\"", "#", "$", "%", "&", "'", "(", ")", "*", "+", ",", "-", ".", "/">>
    \o Digit \o <<":", ";", "<", "=", ">", "?", "@">> \o UpperLetters
    \o <<"[", "\\", "]", "^", "_", "grave">> \o LowerLetters \o <<"{", "|", "}", "~">>

\* content.encode(encoding) and bytes.decode(encoding) for utf-8, ascii and
\* latin-1 on printable ASCII text
EncodeText(text) ==
    [i \in 1..Len(text) |-> 31 + (CHOOSE k \in 1..Len(AsciiChars) : AsciiChars[k] = text[i])]
DecodeText(b) == [i \in 1..Len(b) |-> AsciiChars[b[i] - 31]]

\* s.startswith(prefix)
HasPrefix(s, prefix) ==
    Len(s) >= Len(prefix) /\ SubSeq(s, 1, Len(prefix)) = prefix

\* sub in s
Contains(s, sub) ==
    \E i \in 1..(Len(s) - Len(sub) + 1) : SubSeq(s, i, i + Len(sub) - 1) = sub

\* the text after the last "/"
LastSegment(s) == LET parts == Split(s, "/") IN parts[Len(parts)]

\* fnmatch.fnmatch(name, pattern) for patterns of literals, "*" and "?"
RECURSIVE FnMatch(_, _)
FnMatch(name, pattern) ==
    IF pattern = <<>> THEN name = <<>>
    ELSE IF Head(pattern) = "*"
    THEN FnMatch(name, Tail(pattern)) \/ (name # <<>> /\ FnMatch(Tail(name), pattern))
    ELSE /\ name # <<>>
         /\ Head(pattern) = "?" \/ Head(pattern) = Head(name)
         /\ FnMatch(Tail(name), Tail(pattern))

\* target.exists()
PathExists(rem, target) == \E a \in rem : a.uri = target.s

\* target.is_dir()
PathIsDir(rem, target) == \E a \in rem : a.uri = target.s /\ a.is_dir

\* target.stat(): of its fields, size, is_dir and last_modified
PathStat(rem, target) ==
    LET a == CHOOSE x \in rem : x.uri = target.s
    IN [size |-> Len(a.content), is_dir |-> a.is_dir, last_modified |-> <<"2", "0", "2", "4", "-", "0", "1", "-", "0", "1">>]

\* target.properties and target.download_stats() of any artifact
RemoteProperties == PyDict(<<Field(<<"t", "e", "a", "m">>, PyList(<<PyStr(<<"a">>), PyStr(<<"b">>)>>))>>)
RemoteDownloadStats == PyDict(<<Field(<<"d", "o", "w", "n", "l", "o", "a", "d", "C", "o", "u", "n", "t">>, PyInt(2))>>)

\* the path object of the artifact at uri, found under root
ChildPath(root, uri) ==
    PyArtifactoryPath(root.c, uri, root.xs[1].s,
                      IF root.xs[2].s = <<>>
                      THEN SubSeq(uri, Len(root.s) + 2, Len(uri))
                      ELSE root.xs[2].s \o SubSeq(uri, Len(root.s) + 1, Len(uri)))

\* everything below root, in the order of the URLs
Descendants(rem, root) ==
    LET uris == {a.uri : a \in {x \in rem : HasPrefix(x.uri, root.s \o <<"/">>)}}
    IN [i \in 1..Cardinality(uris) |-> ChildPath(root, SortedNames(uris)[i])]

\* list(root.iterdir()): what lies directly in root
PathIterDir(rem, root) ==
    SelectSeq(Descendants(rem, root),
              LAMBDA child : \A i \in (Len(root.s) + 2)..Len(child.s) : child.s[i] # "/")

\* root.glob(pattern): "**/*" is everything below root, a pattern without a
\* "/" is matched against the names directly in root
PathGlob(rem, root, pattern) ==
    IF pattern = <<"*", "*", "/", "*">> THEN Descendants(rem, root)
    ELSE SelectSeq(PathIterDir(rem, root),
                   LAMBDA child : FnMatch(LastSegment(child.s), pattern))

\* target.read_text(encoding=...)
PathReadText(rem, target) ==
    DecodeText((CHOOSE x \in rem : x.uri = target.s).content)

\* the folders above uri, down to the repository
RECURSIVE Parents(_, _)
Parents(uri, repo_uri) ==
    LET cut == Len(uri) - Len(LastSegment(uri)) - 1
    IN IF cut <= Len(repo_uri) THEN {}
       ELSE {SubSeq(uri, 1, cut)} \cup Parents(SubSeq(uri, 1, cut), repo_uri)

\* the URL of the repository a path object lies in
RepositoryUri(target) ==
    IF target.xs[2].s = <<>> THEN target.s
    ELSE SubSeq(target.s, 1, Len(target.s) - Len(target.xs[2].s) - 1)

\* target.parent.mkdir(parents=True, exist_ok=True): the folders above the
\* target that are missing
PathMkdirParents(rem, target) ==
    rem \cup {Artifact(uri, TRUE, <<>>) :
                 uri \in {u \in Parents(target.s, RepositoryUri(target)) :
                             ~\E a \in rem : a.uri = u}}

\* target.write_text(content, encoding=...): the artifact at the URL becomes
\* the content, whatever was there
PathWriteText(rem, target, content) ==
    {a \in rem : a.uri # target.s} \cup {Artifact(target.s, FALSE, EncodeText(content))}

\* the server the settings name, holding one repository
RemoteRepository == <<"h", "t", "t", "p", "s", ":", "/", "/", "h", "/", "a", "r", "t", "i", "f", "a", "c", "t", "o", "r", "y", "/", "l", "i", "b", "s">>
RemoteAtStart ==
    {Artifact(RemoteRepository, TRUE, <<>>),
     Artifact(RemoteRepository \o <<"/", "d">>, TRUE, <<>>),
     Artifact(RemoteRepository \o <<"/", "d", "/", "a", ".", "t", "x", "t">>, FALSE, EncodeText(<<"h", "i">>)),
     Artifact(RemoteRepository \o <<"/", "b", ".", "b", "i", "n">>, FALSE, EncodeText(<<"h", "e", "l", "l", "o", "!">>))}

----------------------------------------------------------------------------
(* Exceptions and errors._format_error *)

PyError(cls, message) == [cls |-> cls, message |-> message]

\* the messages of the exceptions the library raises when the server refuses
FaultTexts ==
    {<<"4", "0", "4", " ", "C", "l", "i", "e", "n", "t", " ", "E", "r", "r", "o", "r", ":", " ", "N", "o", "t", " ", "F", "o", "u", "n", "d", " ", "f", "o", "r", " ", "u", "r", "l", ":", " ", "h", "t", "t", "p", "s", ":", "/", "/", "h", "/", "a", "p", "i", "/", "s", "t", "o", "r", "a", "g", "e", "/", "l", "i", "b", "s">>,
     <<"P", "r", "o", "p", "s", " ", "A", "u", "t", "h", "e", "n", "t", "i", "c", "a", "t", "i", "o", "n", " ", "T", "o", "k", "e", "n", " ", "n", "o", "t", " ", "f", "o", "u", "n", "d">>,
     <<"5", "0", "0", " ", "S", "e", "r", "v", "e", "r", " ", "E", "r", "r", "o", "r">>,
     <<"b", "o", "o", "m">>}

\* what a repository operation raises when it fails
NetworkFaults ==
    {PyError("ArtifactoryException", Str(text)) : text \in FaultTexts}
        \cup {PyError("ConnectionError", "connection refused")}

\* the characters of str(exc) for an exception of the library
ExceptionText(exc) == CHOOSE text \in FaultTexts : Str(text) = exc.message

BaseUrlHint ==
    " Hint: use a base URL that includes '/artifactory', e.g. https://host/artifactory."
TokenHint ==
    " Hint: verify ARTIFACTORY_TOKEN is a valid full access token for this Artifactory instance."

\* errors._format_error(action, exc)
FormatErrorWithHints(action, exc) ==
    IF exc.cls \in {"ValueError", "FileNotFoundError", "FileExistsError", "TypeError"}
    THEN exc.message
    ELSE IF exc.cls = "ArtifactoryException"
    THEN "Artifactory error during " \o action \o ": " \o exc.message
         \o (IF Contains(ExceptionText(exc), <<"4", "0", "4", " ", "C", "l", "i", "e", "n", "t", " ", "E", "r", "r", "o", "r">>)
                 /\ Contains(ExceptionText(exc), <<"/", "a", "p", "i", "/">>)
             THEN BaseUrlHint ELSE "")
         \o (IF Contains(ExceptionText(exc), <<"P", "r", "o", "p", "s", " ", "A", "u", "t", "h", "e", "n", "t", "i", "c", "a", "t", "i", "o", "n", " ", "T", "o", "k", "e", "n", " ", "n", "o", "t", " ", "f", "o", "u", "n", "d">>)
             THEN TokenHint ELSE "")
    ELSE "Unexpected error during " \o action \o ": " \o exc.cls \o ": " \o exc.message

\* server._format_error(action, exc): no hints
ServerFormatError(action, exc) ==
    IF exc.cls \in {"ValueError", "FileNotFoundError", "FileExistsError", "TypeError"}
    THEN exc.message
    ELSE IF exc.cls = "ArtifactoryException"
    THEN "Artifactory error during " \o action \o ": " \o exc.message
    ELSE "Unexpected error during " \o action \o ": " \o exc.cls \o ": " \o exc.message

\* _format_error of the module that runs
FormatError(action, exc) ==
    IF entry = "tools" THEN FormatErrorWithHints(action, exc)
    ELSE ServerFormatError(action, exc)

----------------------------------------------------------------------------
(* The objects an invocation targets, and what their classes expose *)

Member(name, is_callable) == [name |-> name, callable |-> is_callable]

\* what every object has from `object`: of it, the two names the requests use
ObjectMembers == {Member(<<"_", "_", "c", "l", "a", "s", "s", "_", "_">>, TRUE), Member(<<"_", "_", "d", "i", "c", "t", "_", "_">>, FALSE)}

\* tests/test_bridge.py: _DummyTarget
DummyTarget == PyObject("_DummyTarget", "d")
DummyMembers == {Member(<<"n", "o", "n", "_", "c", "a", "l", "l", "a", "b", "l", "e">>, FALSE), Member(<<"g", "e", "t", "_", "r", "e", "p", "o", "s", "i", "t", "o", "r", "i", "e", "s">>, TRUE)}

\* the class of ObjA: a library object with four similarly named methods
RepoMembers ==
    {Member(<<"g", "e", "t", "_", "a">>, TRUE), Member(<<"g", "e", "t", "_", "b">>, TRUE), Member(<<"g", "e", "t", "_", "c">>, TRUE), Member(<<"g", "e", "t", "_", "d">>, TRUE)}

\* the class of ObjB: a library object that hands out a buffer
BuildMembers == {Member(<<"b", "u", "f", "f", "e", "r">>, TRUE)}

\* bytearray, of its methods the one the requests use
ByteArrayMembers == {Member(<<"a", "p", "p", "e", "n", "d">>, TRUE)}

\* the library's path class: of its attributes, two methods that ask the
\* server and one property
PathMembers == {Member(<<"e", "x", "i", "s", "t", "s">>, TRUE), Member(<<"i", "s", "_", "d", "i", "r">>, TRUE), Member(<<"n", "a", "m", "e">>, FALSE)}

\* the attributes of an instance of cls, each with callable(getattr(target, name))
ClassMembers(cls) ==
    ObjectMembers \cup (CASE cls = "_DummyTarget" -> DummyMembers
                          [] cls = "ArtifactoryPath" -> PathMembers
                          [] cls = "Repo" -> RepoMembers
                          [] cls = "Build" -> BuildMembers
                          [] cls = "bytearray" -> ByteArrayMembers
                          [] OTHER -> {})

\* hasattr(target, name)
HasAttr(target, name) == \E m \in ClassMembers(TypeName(target)) : m.name = name

\* callable(getattr(target, name))
AnyAttrCallable(target, name) == HasAttr(target, name)
IsCallableAttr(target, name) ==
    \E m \in ClassMembers(TypeName(target)) : m.name = name /\ m.callable

\* not name.startswith("_"), the filter of _public_method_names_for_target
PublicName(name) == ~StartsWith(name, "_")

\* bridge._public_method_names_for_target
PublicMethodNamesForTarget(target) ==
    SortedNames({m.name : m \in {x \in ClassMembers(TypeName(target)) :
                                    x.callable /\ PublicName(x.name)}})

\* what a call does: it returns a value or raises
Returned(v) == [raised |-> FALSE, val |-> v]
Raised(exc) == [raised |-> TRUE, val |-> exc]
NoOutcome == Returned(PyNone)

WrongArguments == PyException("TypeError", <<"unexpected arguments">>)

\* a bytearray made now: objects made at different times differ in identity,
\* and every bytearray made is stored at once, so the counter tells them apart
NewByteArray(b) == PyByteArray(Str(<<"m">> \o DecStr(counter + 1)), b)

\* member(*decoded_args, **decoded_kwargs).  __class__ builds a new instance
\* and _DummyTarget.get_repositories returns its list, both only without
\* arguments; exists() and is_dir() of a path ask the server, which answers
\* or fails; buffer() of ObjB's class makes a bytearray holding b"A";
\* bytearray.append takes one int in range(256); what the library's other
\* methods do is not the program's to decide
CallOutcomes(target, name, args, kwargs) ==
    IF name = <<"_", "_", "c", "l", "a", "s", "s", "_", "_">>
    THEN IF args = <<>> /\ kwargs = <<>>
         THEN {Returned(PyObject(TypeName(target), "new"))}
         ELSE {Raised(WrongArguments)}
    ELSE IF TypeName(target) = "_DummyTarget"
    THEN IF args = <<>> /\ kwargs = <<>>
         THEN {Returned(PyList(<<PyStr(<<"l", "i", "b", "s", "-", "r", "e", "l", "e", "a", "s", "e", "-", "l", "o", "c", "a", "l">>)>>))}
         ELSE {Raised(WrongArguments)}
    ELSE IF TypeName(target) = "ArtifactoryPath"
    THEN IF args = <<>> /\ kwargs = <<>>
         THEN {Returned(PyBool(IF name = <<"i", "s", "_", "d", "i", "r">> THEN PathIsDir(remote, target)
                               ELSE PathExists(remote, target))),
               Raised(PyException("ArtifactoryException", <<"b", "o", "o", "m">>))}
         ELSE {Raised(WrongArguments)}
    ELSE IF TypeName(target) = "Build"
    THEN IF args = <<>> /\ kwargs = <<>>
         THEN {Returned(NewByteArray(<<65>>))}
         ELSE {Raised(WrongArguments)}
    ELSE IF TypeName(target) = "bytearray"
    THEN IF Len(args) = 1 /\ kwargs = <<>> /\ args[1].t = "int" /\ args[1].n \in 0..255
         THEN {Returned(PyNone)}
         ELSE {Raised(WrongArguments)}
    ELSE {Returned(PyException("ValueError", <<"bad">>)),
          Returned(ObjB),
          Returned(PyList(<<ObjB, PyInt(7)>>)),
          Returned(PyAwaitable("c")),
          Raised(PyException("ArtifactoryException", <<"boom">>))}

\* the target after member(*decoded_args, **decoded_kwargs) has done
\* `outcome`: bytearray.append changes its target in place
CallEffect(target, name, args, outcome) ==
    IF TypeName(target) = "bytearray" /\ name = <<"a", "p", "p", "e", "n", "d">> /\ ~outcome.raised
    THEN [target EXCEPT !.b = Append(@, args[1].n)]
    ELSE target

\* the store's dict after an object changed in place: the entry that holds it
\* (the object of that identity) now shows it as it is after the call
ItemsAfterCall(d, target, after) ==
    [i \in 1..Len(d) |->
        IF d[i].v.t = "object" /\ d[i].v.a = target.a /\ d[i].v.c = target.c
        THEN [k |-> d[i].k, v |-> after]
        ELSE d[i]]

----------------------------------------------------------------------------
(* Requests *)

HandleRef(handle_id) == PyDict(<<Field(<<"_", "_", "h", "a", "n", "d", "l", "e", "_", "i", "d", "_", "_">>, handle_id)>>)
BytesRef(encoded) == PyDict(<<Field(<<"_", "_", "b", "y", "t", "e", "s", "_", "b", "a", "s", "e", "6", "4", "_", "_">>, encoded)>>)
PathRef(repository, path) ==
    PyDict(<<Field(<<"_", "_", "p", "a", "t", "h", "_", "_">>, PyDict(<<Field(<<"r", "e", "p", "o", "s", "i", "t", "o", "r", "y">>, repository),
                                        Field(<<"p", "a", "t", "h">>, path)>>))>>)

Arguments(positional, keyword) == [positional |-> positional, keyword |-> keyword]

\* none; a handle and then a path; a number and then a list holding base64
\* that is not valid
ArgumentInputs ==
    {Arguments(<<>>, <<>>),
     Arguments(<<HandleRef(PyStr(H1))>>,
               <<Field(<<"d", "e", "s", "t">>, PathRef(PyStr(<<"l", "i", "b", "s">>), PyStr(<<"a", "/", "b">>)))>>),
     Arguments(<<PyInt(5)>>, <<Field(<<"d", "a", "t", "a">>, PyList(<<BytesRef(PyStr(<<"Q", "Q", "=">>))>>))>>)}

MaxItemsInputs == {PyNone, PyInt(0), PyInt(1), PyInt(10000), PyInt(10001)}

MethodInputs ==
    {<<" ", "\t">>, <<" ">> \o <<"_", "_", "c", "l", "a", "s", "s", "_", "_">>, <<"_", "_", "d", "i", "c", "t", "_", "_">>, <<"_", "x">>,
     <<"n", "o", "n", "_", "c", "a", "l", "l", "a", "b", "l", "e">>, <<"g", "e", "t", "_", "r", "e", "p", "o", "s", "i", "t", "o", "r", "i", "e", "s">> \o <<"\n">>, <<"g", "e", "t", "_", "r", "e", "p", "o">>, <<"g", "e", "t", "_">>, <<"g", "e", "t", "_", "a">>,
     <<"c", "l", "a", "s", "s", "_", "_">>, <<"n", "o", "n", "_", "c", "a", "l", "l", "a", "b", "l">>}

TargetInputs == {DummyTarget, ObjA}

InvokeRequests ==
    {[target |-> target, target_label |-> "target", method |-> method,
      positional_args |-> a.positional, keyword_args |-> a.keyword,
      max_items |-> max_items] :
        target \in TargetInputs, method \in MethodInputs,
        a \in ArgumentInputs, max_items \in MaxItemsInputs}

\* _render_method_suggestions(name, public_method_names), worked out once for
\* the targets (ObjB as a stored object among them) and names of the requests
SuggestionMemo ==
    {<<target, Strip(method),
       RenderMethodSuggestions(Strip(method), PublicMethodNamesForTarget(target))>> :
        target \in TargetInputs \cup {ObjB}, method \in MethodInputs}

MethodSuggestion(target, name) ==
    (CHOOSE m \in SuggestionMemo : m[1] = target /\ m[2] = name)[3]

----------------------------------------------------------------------------
(* _invoke_method_sync: the checks before any argument is decoded *)

MaxItemsRange == "max_items must be between 1 and 10000."
MethodEmpty == "method cannot be empty."

PrivateMethod(name) ==
    "Method " \o ReprStr(name) \o " is private/special and cannot be invoked. "
    \o "Use public callables only (discover via list_artifactory_capabilities)."

MethodNotFound(name, target) ==
    "Method " \o ReprStr(name) \o " not found on target type " \o TypeName(target) \o ". "
    \o "Call list_artifactory_capabilities for discoverability."

NotCallable(name, target) ==
    "Attribute " \o ReprStr(name) \o " exists on target type " \o TypeName(target)
    \o " but is not callable. This bridge only supports method invocation."

ServerNotCallable(name) == "Attribute " \o ReprStr(name) \o " exists but is not callable."

ReturnedAwaitable(name) ==
    "Method " \o ReprStr(name)
    \o " returned an awaitable, which is not supported by this bridge."

\* _normalize_max_items: max_items < 1 or max_items > 10_000
MaxItemsOutOfRange(n) == n < 1 \/ n > 10000

\* _normalize_max_items(max_items); max_items is None or an int
NormalizeMaxItems(max_items, cfg) ==
    IF max_items.t = "none" THEN [ok |-> TRUE, val |-> cfg.mcp_default_max_items]
    ELSE IF MaxItemsOutOfRange(max_items.n) THEN [ok |-> FALSE, val |-> 0]
    ELSE [ok |-> TRUE, val |-> max_items.n]

IsPrivateName(name) == StartsWith(name, "_")

CheckFail(message, max_items, name, suggestion, events) ==
    [ok |-> FALSE, err |-> ValueError(message), resolved_max_items |-> max_items,
     name |-> name, suggestion |-> suggestion, events |-> events]

CheckPass(max_items, name, events) ==
    [ok |-> TRUE, err |-> NoError, resolved_max_items |-> max_items,
     name |-> name, suggestion |-> "", events |-> events]

\* bridge._invoke_method_sync, up to callable(member)
BridgeChecks(req, cfg) ==
    LET NotFound(max, name, suggestion) ==
            CheckFail(MethodNotFound(name, req.target) \o suggestion, max.val, name,
                      suggestion, <<"getmembers", "hasattr">>)
        Checked(max, name) ==
            IF ~max.ok THEN CheckFail(MaxItemsRange, 0, <<>>, "", <<>>)
            ELSE IF name = <<>> THEN CheckFail(MethodEmpty, max.val, name, "", <<>>)
            ELSE IF IsPrivateName(name)
            THEN CheckFail(PrivateMethod(name), max.val, name, "", <<>>)
            ELSE IF ~HasAttr(req.target, name)
            THEN NotFound(max, name, MethodSuggestion(req.target, name))
            ELSE IF ~IsCallableAttr(req.target, name)
            THEN CheckFail(NotCallable(name, req.target), max.val, name, "",
                           <<"getmembers", "hasattr", "getattr">>)
            ELSE CheckPass(max.val, name, <<"getmembers", "hasattr", "getattr">>)
    IN Checked(NormalizeMaxItems(req.max_items, cfg), Strip(req.method))

\* server._invoke_method_sync, up to callable(member)
ServerChecks(req, cfg) ==
    LET Checked(max, name) ==
            IF ~max.ok THEN CheckFail(MaxItemsRange, 0, <<>>, "", <<>>)
            ELSE IF name = <<>> THEN CheckFail(MethodEmpty, max.val, name, "", <<>>)
            ELSE IF ~HasAttr(req.target, name)
            THEN CheckFail(MethodNotFound(name, req.target), max.val, name, "",
                           <<"hasattr">>)
            ELSE IF ~IsCallableAttr(req.target, name)
            THEN CheckFail(ServerNotCallable(name), max.val, name, "",
                           <<"hasattr", "getattr">>)
            ELSE CheckPass(max.val, name, <<"hasattr", "getattr">>)
    IN Checked(NormalizeMaxItems(req.max_items, cfg), Strip(req.method))

----------------------------------------------------------------------------
(* _invoke_method_sync: decoding, the call, the result *)

\* decoded_args, then decoded_kwargs
DecodeArguments(req, env) ==
    LET Keywords(args, kw) ==
            IF ~kw.ok
            THEN [ok |-> FALSE, args |-> <<>>, kwargs |-> <<>>, err |-> kw.err,
                  events |-> args.events \o kw.events]
            ELSE [ok |-> TRUE, args |-> args.vals,
                  kwargs |-> [i \in 1..Len(req.keyword_args) |->
                                 PyEntry(req.keyword_args[i].xs[1], kw.vals[i])],
                  err |-> NoError, events |-> args.events \o kw.events]
        Positional(args) ==
            IF ~args.ok
            THEN [ok |-> FALSE, args |-> <<>>, kwargs |-> <<>>, err |-> args.err,
                  events |-> args.events]
            ELSE Keywords(args, DecodeEach([i \in 1..Len(req.keyword_args) |->
                                               req.keyword_args[i].xs[2]], env))
    IN Positional(DecodeEach(req.positional_args, env))

GenericMethodResult(target, method, result_type, result) ==
    [target |-> target, method |-> method, result_type |-> result_type, result |-> result]

NoResult == GenericMethodResult("", <<>>, "", PyNone)

\* the store as an invocation finds it
StoreNow == [items |-> items, counter |-> counter, puts |-> <<>>, taken |-> <<>>]

\* result = member(*decoded_args, **decoded_kwargs): the one place the method
\* is called, outside any loop or try
MemberCallRetried(outcome) == IF outcome.raised THEN <<"call", "call">> ELSE <<"call">>
MemberCall(outcome) == <<"call">>

\* from the call on: what the method did, the awaitable check, the encoding
InvokeCallEncodesFirst(req, name, max_items, outcome, st) ==
    LET Serialized(serialized) ==
            IF outcome.val.t = "awaitable"
            THEN [ok |-> FALSE, result |-> NoResult, st |-> serialized.st,
                  err |-> ValueError(ReturnedAwaitable(name))]
            ELSE [ok |-> TRUE,
                  result |-> GenericMethodResult(req.target_label, name,
                                                 TypeName(outcome.val), serialized.out),
                  st |-> serialized.st,
                  err |-> NoError]
    IN IF outcome.raised
       THEN [ok |-> FALSE, result |-> NoResult, st |-> st,
             err |-> [cls |-> TypeName(outcome.val), message |-> Str(outcome.val.s)]]
       ELSE Serialized(SerializeValue(outcome.val, max_items, TRUE, st))
InvokeCallEncodesAll(req, name, max_items, outcome, st) ==
    LET Serialized(serialized) ==
            [ok |-> TRUE,
             result |-> GenericMethodResult(req.target_label, name,
                                            TypeName(outcome.val), serialized.out),
             st |-> serialized.st,
             err |-> NoError]
    IN Serialized(SerializeValue(outcome.val, max_items, TRUE, st))
InvokeCall(req, name, max_items, outcome, st) ==
    LET Serialized(serialized) ==
            [ok |-> TRUE,
             result |-> GenericMethodResult(req.target_label, name,
                                            TypeName(outcome.val), serialized.out),
             st |-> serialized.st,
             err |-> NoError]
    IN IF outcome.raised
       THEN [ok |-> FALSE, result |-> NoResult, st |-> st,
             err |-> [cls |-> TypeName(outcome.val), message |-> Str(outcome.val.s)]]
       ELSE IF outcome.val.t = "awaitable"
       THEN [ok |-> FALSE, result |-> NoResult, st |-> st,
             err |-> ValueError(ReturnedAwaitable(name))]
       ELSE Serialized(SerializeValue(outcome.val, max_items, TRUE, st))

PutEvents(st) == [i \in 1..Len(st.puts) |-> "_HANDLE_STORE.put"]

\* the invocation fails before the call
InvokeFails(fn, req, pre, err, events) ==
    /\ last' = [op |-> "invoke", fn |-> fn, req |-> req, ok |-> FALSE, err |-> err,
                suggestion |-> pre.suggestion,
                resolved_max_items |-> pre.resolved_max_items,
                args |-> <<>>, kwargs |-> <<>>, outcome |-> NoOutcome,
                val |-> NoResult, events |-> events]
    /\ UNCHANGED <<config, remote, items, counter, put_log, drop_log>>

\* the invocation calls the method, which does `outcome`
InvokeCalls(fn, req, pre, dec, outcome) ==
    LET Returns(call) ==
            /\ call.st.counter <= MaxInvokeCounter
            /\ items' = call.st.items
            /\ counter' = call.st.counter
            /\ put_log' = put_log \o call.st.puts
            /\ last' = [op |-> "invoke", fn |-> fn, req |-> req, ok |-> call.ok,
                        err |-> call.err, suggestion |-> "",
                        resolved_max_items |-> pre.resolved_max_items,
                        args |-> dec.args, kwargs |-> dec.kwargs, outcome |-> outcome,
                        val |-> call.result,
                        events |-> pre.events \o dec.events \o MemberCall(outcome)
                                   \o PutEvents(call.st)]
            /\ UNCHANGED <<config, remote, drop_log>>
    IN Returns(InvokeCall(req, pre.name, pre.resolved_max_items, outcome,
                          [StoreNow EXCEPT !.items =
                              ItemsAfterCall(@, req.target,
                                             CallEffect(req.target, pre.name, dec.args,
                                                        outcome))]))

\* after the checks: decode; call only what decoded
InvokeDecodesAndCalls(fn, req, pre) ==
    LET Decoded(dec) ==
            IF ~dec.ok THEN InvokeFails(fn, req, pre, dec.err, pre.events \o dec.events)
            ELSE \E outcome \in CallOutcomes(req.target, pre.name, dec.args, dec.kwargs) :
                     InvokeCalls(fn, req, pre, dec, outcome)
    IN Decoded(DecodeArguments(req, [items |-> items, settings |-> settings,
                                    entry |-> entry]))

\* _invoke_method_sync of the module that runs, on whatever thread runs it
InvokeMethodSync(req) ==
    LET Checked(fn, pre) ==
            IF ~pre.ok THEN InvokeFails(fn, req, pre, pre.err, pre.events)
            ELSE InvokeDecodesAndCalls(fn, req, pre)
    IN IF entry = "tools" THEN Checked("bridge", BridgeChecks(req, settings))
       ELSE Checked("server", ServerChecks(req, settings))

\* bridge._invoke_method_sync, one call at a time
InvokeBridge(req) ==
    /\ entry = "tools"
    /\ InvokeMethodSync(req)
    /\ UNCHANGED threadVars

\* server._invoke_method_sync, one call at a time
InvokeServer(req) ==
    /\ entry = "server"
    /\ InvokeMethodSync(req)
    /\ UNCHANGED threadVars

----------------------------------------------------------------------------
(* The specification of invocations *)

\* an environment that names a server and lowers the default
ConfiguredSettings ==
    [artifactory_base_url |-> PyStr(<<"h", "t", "t", "p", "s", ":", "/", "/", "h", "/", "a", "r", "t", "i", "f", "a", "c", "t", "o", "r", "y">>),
     artifactory_use_saas_path |-> FALSE,
     mcp_default_max_items |-> 10]

SettingsInputs == {DefaultSettings, ConfiguredSettings}

\* the process runs tools.py
InitInvoke ==
    /\ entry = "tools"
    /\ settings \in SettingsInputs
    /\ items = <<>>
    /\ counter = 0
    /\ lock = 0
    /\ pc = [t \in Threads |-> "idle"]
    /\ loc = [t \in Threads |-> [op |-> "none"]]
    /\ last = [op |-> "init"]
    /\ put_log = <<>>
    /\ drop_log = {}
    /\ remote = {}

NextInvoke ==
    \/ \E req \in InvokeRequests : InvokeBridge(req)
    \/ Drop(H1)

SpecInvoke == InitInvoke /\ [][NextInvoke]_vars

\* the process runs server.py
InitInvokeServer ==
    /\ entry = "server"
    /\ settings \in SettingsInputs
    /\ items = <<>>
    /\ counter = 0
    /\ lock = 0
    /\ pc = [t \in Threads |-> "idle"]
    /\ loc = [t \in Threads |-> [op |-> "none"]]
    /\ last = [op |-> "init"]
    /\ put_log = <<>>
    /\ drop_log = {}
    /\ remote = {}

NextInvokeServer ==
    \/ \E req \in InvokeRequests : InvokeServer(req)
    \/ Drop(H1)

SpecInvokeServer == InitInvokeServer /\ [][NextInvokeServer]_vars

\* the process runs either module
InitInvokeAny ==
    /\ entry \in {"tools", "server"}
    /\ settings \in SettingsInputs
    /\ items = <<>>
    /\ counter = 0
    /\ lock = 0
    /\ pc = [t \in Threads |-> "idle"]
    /\ loc = [t \in Threads |-> [op |-> "none"]]
    /\ last = [op |-> "init"]
    /\ put_log = <<>>
    /\ drop_log = {}
    /\ remote = {}

\* of the requests, those for a data attribute, a private data attribute, a
\* method, a name the target lacks and __class__, with max_items absent, 0 or 1
InvokeAnyRequests ==
    {req \in InvokeRequests :
        /\ req.method \in {<<"n", "o", "n", "_", "c", "a", "l", "l", "a", "b", "l", "e">>, <<"_", "_", "d", "i", "c", "t", "_", "_">>, <<"g", "e", "t", "_", "a">>, <<"g", "e", "t", "_", "r", "e", "p", "o">>,
                            <<" ">> \o <<"_", "_", "c", "l", "a", "s", "s", "_", "_">>}
        /\ req.max_items \in {PyNone, PyInt(0), PyInt(1)}}

NextInvokeAny ==
    \/ \E req \in InvokeAnyRequests : InvokeBridge(req)
    \/ \E req \in InvokeAnyRequests : InvokeServer(req)
    \/ Drop(H1)

SpecInvokeAny == InitInvokeAny /\ [][NextInvokeAny]_vars

----------------------------------------------------------------------------
(* The codec on its own: _serialize_value and _decode_json_argument applied *)
(* to values, against the store                                            *)

Num(k) == PyInt(k)

\* bytes objects, the empty one among them
ByteInputs == {<<>>, <<65>>, <<65, 66>>, <<255, 0, 16>>, <<1, 2, 3, 250>>}

\* values with no JSON form
OpaqueInputs == {ObjA, ObjB}

LibsPath ==
    PyArtifactoryPath("ArtifactoryPath", <<"h", "t", "t", "p", "s", ":", "/", "/", "h", "/", "a", "r", "t", "i", "f", "a", "c", "t", "o", "r", "y", "/", "l", "i", "b", "s", "/", "a", "/", "b">>, <<"l", "i", "b", "s">>, <<"/", "a", "/", "b">>)

ScalarInputs ==
    {PyNone, PyStr(<<"a">>), Num(7), PyBool(TRUE), PyPurePath(<<"a", "/", "b">>), LibsPath,
     PyException("KeyError", <<"k">>)}

\* sequences of 0 to 4 items, and sequences within sequences
SequenceInputs ==
    {PyList(<<>>), PyList(<<Num(1)>>), PyList(<<Num(1), Num(2)>>),
     PyList(<<Num(1), Num(2), Num(3)>>), PyList(<<Num(1), Num(2), Num(3), Num(4)>>),
     PyTuple(<<Num(1), Num(2), Num(3)>>), PySet(<<Num(3), Num(1), Num(2)>>),
     PyList(<<PyList(<<Num(1), Num(2), Num(3)>>), PyTuple(<<Num(4)>>), ObjA, ObjB>>),
     PyList(<<ObjA, ObjA>>)}

IteratorInputs ==
    {PyIterator(<<>>), PyIterator(<<Num(1)>>), PyIterator(<<Num(1), Num(2)>>),
     PyIterator(<<Num(1), Num(2), Num(3)>>),
     PyIterator(<<Num(1), Num(2), Num(3), Num(4)>>),
     PyIterator(<<ObjA, ObjB>>),
     PyEndlessIterator(<<Num(1), Num(2)>>)}

\* a mapping of two entries, and one of four
MappingInputs ==
    {PyDict(<<PyEntry(PyStr(<<"k">>), ObjA),
              PyEntry(Num(1), PyList(<<Num(1), Num(2), Num(3)>>))>>),
     PyDict(<<Field(<<"a">>, Num(1)), Field(<<"b">>, Num(2)), Field(<<"c">>, Num(3)),
              Field(<<"d">>, Num(4))>>)}

EncodeInputs ==
    {PyBytes(b) : b \in ByteInputs} \cup OpaqueInputs \cup ScalarInputs
    \cup SequenceInputs \cup IteratorInputs \cup MappingInputs

\* what _normalize_max_items lets through is 1..10000
CodecMaxItems == {2, 3}

RECURSIVE HoldsOpaque(_)
HoldsOpaque(value) ==
    \/ value.t = "object"
    \/ \E i \in 1..Len(value.xs) : HoldsOpaque(value.xs[i])

\* every value with handles created; without, the values that would need one
EncodeCalls ==
    {[value |-> value, max_items |-> max_items, create_handles |-> TRUE] :
        value \in EncodeInputs, max_items \in CodecMaxItems}
    \cup {[value |-> value, max_items |-> max_items, create_handles |-> FALSE] :
             value \in {v \in EncodeInputs : HoldsOpaque(v)}, max_items \in CodecMaxItems}

PathRefOf(fields) == PyDict(<<Field(<<"_", "_", "p", "a", "t", "h", "_", "_">>, PyDict(fields))>>)

HandleRefInputs ==
    {HandleRef(PyStr(H1)), HandleRef(PyStr(H2)), HandleRef(Num(5)), HandleRef(PyNone),
     PyList(<<Num(1), PyDict(<<Field(<<"k">>, PyList(<<HandleRef(PyStr(H1))>>))>>)>>)}

BytesRefInputs ==
    {BytesRef(PyStr(<<"Q", "Q", "=">>)), BytesRef(PyStr(<<"Q">>)), BytesRef(PyStr(<<"@", "@", "@", "@">>)),
     BytesRef(PyStr(<<"Q", "U", "J", "D">>)), BytesRef(Num(1)), BytesRef(PyList(<<>>))}

PathRefInputs ==
    {PathRef(PyStr(<<"l", "i", "b", "s">>), PyStr(<<"a", "/", "b">>)),
     PathRefOf(<<Field(<<"p", "a", "t", "h">>, PyStr(<<"a">>))>>),
     PathRefOf(<<Field(<<"r", "e", "p", "o", "s", "i", "t", "o", "r", "y">>, PyStr(<<"l", "i", "b", "s">>))>>),
     PathRefOf(<<Field(<<"r", "e", "p", "o", "s", "i", "t", "o", "r", "y">>, Num(1)), Field(<<"p", "a", "t", "h">>, PyStr(<<"a">>))>>),
     PathRefOf(<<Field(<<"r", "e", "p", "o", "s", "i", "t", "o", "r", "y">>, PyStr(<<"l", "i", "b", "s">>)), Field(<<"p", "a", "t", "h">>, Num(2))>>),
     PathRefOf(<<Field(<<"r", "e", "p", "o", "s", "i", "t", "o", "r", "y">>, PyStr(<<"l", "i", "b", "s">>)), Field(<<"p", "a", "t", "h">>, PyStr(<<"a">>)),
                 Field(<<"b", "a", "s", "e", "_", "u", "r", "l">>, Num(3))>>),
     PathRefOf(<<Field(<<"r", "e", "p", "o", "s", "i", "t", "o", "r", "y">>, PyStr(<<"l", "i", "b", "s">>)), Field(<<"p", "a", "t", "h">>, PyStr(<<"a">>)),
                 Field(<<"b", "a", "s", "e", "_", "u", "r", "l">>, PyStr(<<"f", "t", "p", ":", "/", "/", "h">>))>>),
     PathRefOf(<<Field(<<"r", "e", "p", "o", "s", "i", "t", "o", "r", "y">>, PyStr(<<"l", "i", "b", "s">>)), Field(<<"p", "a", "t", "h">>, PyStr(<<"a">>)),
                 Field(<<"b", "a", "s", "e", "_", "u", "r", "l">>, PyStr(<<"h", "t", "t", "p", ":", "/", "/", "x">>))>>),
     PathRefOf(<<Field(<<"r", "e", "p", "o", "s", "i", "t", "o", "r", "y">>, PyStr(<<"a", "/", "b">>)), Field(<<"p", "a", "t", "h">>, PyStr(<<"a">>))>>),
     PathRefOf(<<Field(<<"r", "e", "p", "o", "s", "i", "t", "o", "r", "y">>, PyStr(<<"l", "i", "b", "s">>)), Field(<<"p", "a", "t", "h">>, PyStr(<<".", ".", "/", "a">>))>>),
     PyDict(<<Field(<<"_", "_", "p", "a", "t", "h", "_", "_">>, PyStr(<<"l", "i", "b", "s", "/", "a">>))>>),
     PyDict(<<Field(<<"_", "_", "p", "a", "t", "h", "_", "_">>, PyNone)>>)}

\* objects that hold a special key and another key
ManyKeyInputs ==
    {PyDict(<<Field(<<"_", "_", "h", "a", "n", "d", "l", "e", "_", "i", "d", "_", "_">>, PyStr(H1)), Field(<<"x">>, Num(1))>>),
     PyDict(<<Field(<<"x">>, Num(1)), Field(<<"_", "_", "h", "a", "n", "d", "l", "e", "_", "i", "d", "_", "_">>, Num(5))>>),
     PyDict(<<Field(<<"_", "_", "b", "y", "t", "e", "s", "_", "b", "a", "s", "e", "6", "4", "_", "_">>, PyStr(<<"Q", "Q", "=">>)),
              Field(<<"x">>, PyList(<<BytesRef(PyStr(<<"Q", "Q", "=", "=">>))>>))>>),
     PyDict(<<Field(<<"_", "_", "p", "a", "t", "h", "_", "_">>, Num(5)), Field(<<"y">>, PyNone)>>),
     PyDict(<<Field(<<"_", "_", "h", "a", "n", "d", "l", "e", "_", "i", "d", "_", "_">>, PyStr(H2)), Field(<<"_", "_", "p", "a", "t", "h", "_", "_">>, PyStr(<<"z">>))>>)}

PlainInputs ==
    {PyNone, PyStr(<<"a">>), Num(7), PyList(<<PyBool(FALSE), PyDict(<<>>)>>),
     PyDict(<<Field(<<"k">>, PyStr(<<"v">>))>>)}

DecodeInputs ==
    HandleRefInputs \cup BytesRefInputs \cup PathRefInputs \cup ManyKeyInputs
    \cup PlainInputs

\* the reference a caller builds from the envelope it was last given
ReturnedRefs ==
    IF last.op # "encode" \/ last.out.t # "dict" THEN {}
    ELSE IF MapGet(last.out.xs, <<"t", "y", "p", "e">>, PyNone) = PyStr(<<"b", "y", "t", "e", "s">>)
    THEN {BytesRef(MapGet(last.out.xs, <<"b", "a", "s", "e", "6", "4">>, PyNone))}
    ELSE IF MapGet(last.out.xs, <<"t", "y", "p", "e">>, PyNone) = PyStr(<<"h", "a", "n", "d", "l", "e">>)
    THEN {HandleRef(MapGet(last.out.xs, <<"h", "a", "n", "d", "l", "e", "_", "i", "d">>, PyNone))}
    ELSE {}

\* _serialize_value(value, max_items=max_items, create_handles=create_handles)
Encode(value, max_items, create_handles) ==
    LET Done(serialized) ==
            /\ serialized.st.counter <= MaxCodecCounter
            /\ items' = serialized.st.items
            /\ counter' = serialized.st.counter
            /\ put_log' = put_log \o serialized.st.puts
            /\ last' = [op |-> "encode", value |-> value, max_items |-> max_items,
                        create_handles |-> create_handles, out |-> serialized.out,
                        puts |-> serialized.st.puts, taken |-> serialized.st.taken]
            /\ UNCHANGED <<config, remote, drop_log, threadVars>>
    IN Done(SerializeValue(value, max_items, create_handles, StoreNow))

\* _decode_json_argument(value)
Decode(value) ==
    LET Done(decoded) ==
            /\ last' = [op |-> "decode", value |-> value, ok |-> decoded.ok,
                        val |-> decoded.val, err |-> decoded.err,
                        events |-> decoded.events]
            /\ UNCHANGED <<config, remote, items, counter, put_log, drop_log, threadVars>>
    IN Done(DecodeJsonArgument(value, [items |-> items, settings |-> settings,
                                      entry |-> entry]))

InitCodec ==
    /\ entry \in {"tools", "server"}
    /\ settings \in SettingsInputs
    /\ items = <<>>
    /\ counter = 0
    /\ lock = 0
    /\ pc = [t \in Threads |-> "idle"]
    /\ loc = [t \in Threads |-> [op |-> "none"]]
    /\ last = [op |-> "init"]
    /\ put_log = <<>>
    /\ drop_log = {}
    /\ remote = {}

NextCodec ==
    \/ \E call \in EncodeCalls : Encode(call.value, call.max_items, call.create_handles)
    \/ \E value \in DecodeInputs \cup ReturnedRefs : Decode(value)
    \/ \E handle_id \in {H1, H2} : Drop(handle_id)

SpecCodec == InitCodec /\ [][NextCodec]_vars

----------------------------------------------------------------------------
(* Invocations whose arguments refer to handles *)

\* no arguments; a handle as a positional argument; a handle three levels
\* down in a positional argument; a handle inside a keyword argument; a
\* positional handle and then a keyword argument holding another
HandleArgumentInputs ==
    {Arguments(<<>>, <<>>),
     Arguments(<<HandleRef(PyStr(H1))>>, <<>>),
     Arguments(<<PyList(<<Num(1),
                          PyDict(<<Field(<<"k">>, PyList(<<HandleRef(PyStr(H1))>>))>>)>>)>>,
               <<>>),
     Arguments(<<>>,
               <<Field(<<"s", "r", "c">>, PyDict(<<Field(<<"i", "n", "n", "e", "r">>, HandleRef(PyStr(H1)))>>))>>),
     Arguments(<<HandleRef(PyStr(H1))>>,
               <<Field(<<"d", "s", "t">>, PyList(<<HandleRef(PyStr(H2))>>))>>)}

HandleRequests ==
    {[target |-> ObjA, target_label |-> "target", method |-> <<"g", "e", "t", "_", "a">>,
      positional_args |-> a.positional, keyword_args |-> a.keyword,
      max_items |-> PyNone] : a \in HandleArgumentInputs}

NextHandleArgs ==
    \/ \E req \in HandleRequests : InvokeBridge(req)
    \/ \E req \in HandleRequests : InvokeServer(req)
    \/ \E handle_id \in {H1, H2} : Drop(handle_id)

SpecHandleArgs == InitInvokeAny /\ [][NextHandleArgs]_vars

----------------------------------------------------------------------------
(* Invocations on stored objects, which may change them in place *)

\* ObjB asked for its buffer: the result is stored under a handle
BufferRequests ==
    {[target |-> ObjB, target_label |-> "target", method |-> <<"b", "u", "f", "f", "e", "r">>,
      positional_args |-> <<>>, keyword_args |-> <<>>, max_items |-> PyNone]}

\* f"handle:{handle_id}:{type(handle).__name__}" of invoke_artifactory_handle_method
HandleLabel(handle_id, handle) ==
    "handle:" \o Str(handle_id) \o ":" \o TypeName(handle)

\* what invoke_artifactory_handle_method passes on for a handle of the store:
\* append(66), append(67), append(200) or append("x") on the object stored
\* under it
StoredTargetRequests ==
    {[target |-> items[i].v, target_label |-> HandleLabel(items[i].k, items[i].v),
      method |-> <<"a", "p", "p", "e", "n", "d">>, positional_args |-> <<byte>>,
      keyword_args |-> <<>>, max_items |-> PyNone] :
        i \in {j \in 1..Len(items) : Len(items[j].v.b) < MaxByteArrayLen},
        byte \in {PyInt(66), PyInt(67), PyInt(200), PyStr(<<"x">>)}}

NextMutation ==
    \/ \E req \in BufferRequests \cup StoredTargetRequests : InvokeBridge(req)
    \/ \E req \in BufferRequests \cup StoredTargetRequests : InvokeServer(req)
    \/ List
    \/ Drop(H1)

SpecMutation == InitInvokeAny /\ [][NextMutation]_vars

----------------------------------------------------------------------------
(* Claims about _invoke_method_sync  *)

\* the invocation made the call e
Happened(e) == \E i \in 1..Len(last.events) : last.events[i] = e

\* the calls argument decoding makes
DecodeEvents == {"_HANDLE_STORE.get", "b64decode", "_resolve_base_url", "_create_path"}

\* the checks of an invocation, read off its request
RangeViolated(req) == req.max_items.t # "none" /\ req.max_items.n \notin 1..10000
NameEmpty(req) == Strip(req.method) = <<>>
NamePrivate(req) == ~NameEmpty(req) /\ Head(Strip(req.method)) = "_"
AttributeMissing(req) == ~HasAttr(req.target, Strip(req.method))
AttributeNotCallable(req) ==
    \E m \in ClassMembers(TypeName(req.target)) :
        m.name = Strip(req.method) /\ ~m.callable

\* C8: an invocation whose method name, trimmed, starts with an underscore
\* fails with the private/special error, whether or not the target has such
\* an attribute, and the attribute is neither read nor called.  (Stated for
\* requests whose max_items is absent or in range.)
C8_PrivateNameRejected ==
    (last.op = "invoke" /\ ~RangeViolated(last.req) /\ NamePrivate(last.req)) =>
        /\ ~last.ok
        /\ last.err = ValueError(PrivateMethod(Strip(last.req.method)))
        /\ ~Happened("hasattr")
        /\ ~Happened("getattr")
        /\ ~Happened("call")

\* what C9 expects of the invocation of req that ends in the record r, the
\* store holding stored and the settings being cfg when it starts.  The
\* not-callable error is the one of either module.
ChecksInOrder(req, r, stored, cfg) ==
    LET name == Strip(req.method)
        early == \/ RangeViolated(req)
                 \/ NameEmpty(req)
                 \/ NamePrivate(req)
                 \/ AttributeMissing(req)
                 \/ AttributeNotCallable(req)
        dec == DecodeArguments(req, [items |-> stored, settings |-> cfg, entry |-> entry])
        called == \E i \in 1..Len(r.events) : r.events[i] = "call"
    IN /\ IF RangeViolated(req) THEN r.err = ValueError(MaxItemsRange)
          ELSE /\ r.resolved_max_items = IF req.max_items.t = "none"
                                         THEN cfg.mcp_default_max_items
                                         ELSE req.max_items.n
               /\ IF NameEmpty(req) THEN r.err = ValueError(MethodEmpty)
                  ELSE IF NamePrivate(req) THEN r.err = ValueError(PrivateMethod(name))
                  ELSE IF AttributeMissing(req)
                  THEN r.err = ValueError(MethodNotFound(name, req.target) \o r.suggestion)
                  ELSE IF AttributeNotCallable(req)
                  THEN r.err \in {ValueError(NotCallable(name, req.target)),
                                  ValueError(ServerNotCallable(name))}
                  ELSE IF ~dec.ok THEN r.err = dec.err
                  ELSE called
       /\ early => /\ ~r.ok
                   /\ \A i \in 1..Len(r.events) : r.events[i] \notin DecodeEvents
                   /\ ~called
       /\ ~dec.ok => ~r.ok /\ ~called

\* C9: an invocation checks, in this order, the range of max_items (absent:
\* the configured default), the trimmed name not empty, the name not private,
\* the attribute present, the attribute callable, the arguments decodable,
\* and then calls: the error of a request is that of the first check it
\* violates, no argument is decoded unless the first five checks pass, and
\* nothing is called unless decoding succeeds.
C9_ChecksInOrder ==
    [][last'.op = "invoke" => ChecksInOrder(last'.req, last', items, settings)]_vars

\* the public callables of the target's type
PublicCallables(target) ==
    {m.name : m \in {x \in ClassMembers(TypeName(target)) :
                        x.callable /\ Head(x.name) # "_"}}

\* those of them that are close to name: ratio >= 0.5
CloseNames(target, name) ==
    {p \in PublicCallables(target) :
        4 * MatchedSize(p, name, 1, Len(p), 1, Len(name)) >= Len(p) + Len(name)}

\* the suggestion that lists the names ms
SuggestionText(ms) ==
    IF Len(ms) = 1 THEN " Did you mean " \o ReprStr(ms[1]) \o "?"
    ELSE " Did you mean one of: "
         \o JoinStr([i \in 1..Len(ms) |-> ReprStr(ms[i])], ", ") \o "?"

\* C10: an invocation of a public name the target does not have fails with
\* the not-found error and calls nothing; the error carries a "Did you mean"
\* suggestion exactly when a public callable of the target's type is close to
\* the name, and the suggestion lists one to three names, each a public
\* callable of the target's type.
C10_NotFoundSuggestion ==
    (/\ last.op = "invoke"
     /\ ~RangeViolated(last.req)
     /\ ~NameEmpty(last.req)
     /\ ~NamePrivate(last.req)
     /\ AttributeMissing(last.req)) =>
        LET name == Strip(last.req.method)
            close == CloseNames(last.req.target, name)
        IN /\ ~last.ok
           /\ ~Happened("call")
           /\ last.err = ValueError(MethodNotFound(name, last.req.target) \o last.suggestion)
           /\ (last.suggestion # "") <=> (close # {})
           /\ last.suggestion # "" =>
                  \E k \in 1..3 : \E ms \in [1..k -> close] :
                      last.suggestion = SuggestionText(ms)

----------------------------------------------------------------------------
(* Claims about what an invocation does with the attribute it finds *)

\* the request passes the checks that come before callable(member)
ReachesCallable(req) ==
    /\ ~RangeViolated(req)
    /\ ~NameEmpty(req)
    /\ (entry = "tools" => ~NamePrivate(req))
    /\ ~AttributeMissing(req)

\* the not-callable error of the module that runs
NotCallableError(req) ==
    IF entry = "server" THEN ValueError(ServerNotCallable(Strip(req.method)))
    ELSE ValueError(NotCallable(Strip(req.method), req.target))

\* C11: an invocation that names an attribute the target has and that is not
\* callable fails with the not-callable error, which is not the not-found
\* error; it decodes no argument, calls nothing, encodes nothing and leaves
\* the store as it was.
C11_NotCallableRejected ==
    [][(/\ last'.op = "invoke"
        /\ ReachesCallable(last'.req)
        /\ AttributeNotCallable(last'.req)) =>
           /\ ~last'.ok
           /\ last'.err = NotCallableError(last'.req)
           /\ last'.err # ValueError(MethodNotFound(Strip(last'.req.method),
                                                   last'.req.target)
                                    \o last'.suggestion)
           /\ \A i \in 1..Len(last'.events) :
                  last'.events[i] \notin DecodeEvents \cup {"call", "_HANDLE_STORE.put"}
           /\ last'.val = NoResult
           /\ items' = items
           /\ counter' = counter
           /\ put_log' = put_log]_vars

\* non_callable of _DummyTarget, asked for with a handle argument the store
\* holds
C11_Witness ==
    /\ last.op = "invoke"
    /\ Strip(last.req.method) = <<"n", "o", "n", "_", "c", "a", "l", "l", "a", "b", "l", "e">>
    /\ last.req.target = DummyTarget
    /\ last.req.positional_args = <<HandleRef(PyStr(H1))>>
    /\ DictHas(items, H1)
    /\ last.err = NotCallableError(last.req)

----------------------------------------------------------------------------
(* What a call's outcome becomes *)

Called(rec) ==
    /\ rec.op = "invoke"
    /\ \E i \in 1..Len(rec.events) : rec.events[i] = "call"

ExceptionEnvelope(exc) ==
    PyDict(<<Field(<<"t", "y", "p", "e">>, PyStr(<<"e", "x", "c", "e", "p", "t", "i", "o", "n">>)),
             Field(<<"c", "l", "a", "s", "s">>, PyStr(<<exc.c>>)),
             Field(<<"m", "e", "s", "s", "a", "g", "e">>, PyStr(exc.s))>>)

IsExceptionEnvelope(v) ==
    v.t = "dict" /\ MapGet(v.xs, <<"t", "y", "p", "e">>, PyNone) = PyStr(<<"e", "x", "c", "e", "p", "t", "i", "o", "n">>)

\* C12: of an invocation that reaches the call, in either module: when the
\* method raises, the invocation fails with that very error (its class and
\* its message) and returns no envelope; when it returns an awaitable, the
\* invocation fails with the unsupported-awaitable error and returns nothing;
\* when it returns an exception value, the invocation succeeds with
\* {type: exception, class, message} of that value; and the result is an
\* exception envelope only when an exception was returned, never raised.
C12_RaisedIsNotEncoded ==
    [][Called(last') =>
          /\ last'.outcome.raised =>
                 /\ ~last'.ok
                 /\ last'.err.cls = last'.outcome.val.c
                 /\ last'.err.message = Str(last'.outcome.val.s)
                 /\ last'.val = NoResult
          /\ (~last'.outcome.raised /\ last'.outcome.val.t = "awaitable") =>
                 /\ ~last'.ok
                 /\ last'.err.cls = "ValueError"
                 /\ last'.err.message =
                        "Method " \o ReprStr(Strip(last'.req.method))
                        \o " returned an awaitable, which is not supported by this bridge."
                 /\ last'.val = NoResult
          /\ (~last'.outcome.raised /\ last'.outcome.val.t = "exception") =>
                 /\ last'.ok
                 /\ last'.val.result = ExceptionEnvelope(last'.outcome.val)
                 /\ last'.val.result_type = last'.outcome.val.c
          /\ (last'.ok /\ IsExceptionEnvelope(last'.val.result)) =>
                 (~last'.outcome.raised /\ last'.outcome.val.t = "exception")]_vars

\* a method raised ArtifactoryException("boom") and the invocation failed with it
C12_Witness ==
    /\ Called(last)
    /\ last.outcome.raised
    /\ last.outcome.val.c = "ArtifactoryException"
    /\ ~last.ok
    /\ last.err = [cls |-> "ArtifactoryException", message |-> "boom"]

----------------------------------------------------------------------------
(* What Encode returns and what it does to the store *)

\* a JSON value: null, a scalar, a list of JSON values, an object with str keys
RECURSIVE IsJson(_)
IsJson(v) ==
    \/ v.t \in {"none", "str", "int", "bool"}
    \/ v.t = "list" /\ \A i \in 1..Len(v.xs) : IsJson(v.xs[i])
    \/ v.t = "dict" /\ \A i \in 1..Len(v.xs) :
                            v.xs[i].xs[1].t = "str" /\ IsJson(v.xs[i].xs[2])

\* the wrapper kind of an encoded value, "" when it is not a wrapper
WrapperType(out) ==
    IF out.t = "dict" /\ MapGet(out.xs, <<"t", "y", "p", "e">>, PyNone).t = "str"
    THEN Str(MapGet(out.xs, <<"t", "y", "p", "e">>, PyNone).s)
    ELSE ""

OutField(out, key) == MapGet(out.xs, key, PyNone)

StoreUnchanged == items' = items /\ counter' = counter /\ put_log' = put_log

\* C13: Encode returns a JSON value for every input.  For a value that is
\* none of the JSON-representable kinds, with create_handles it registers
\* exactly one handle, whose id was never issued before, returns a {type:
\* handle} wrapper carrying that id, and the store then holds the value itself
\* under that id with every other entry as it was; without create_handles it
\* returns a {type: repr} wrapper and leaves the store unchanged.  For a value
\* of a representable kind no handle is registered for the value itself (only
\* for opaque values inside it) and the result is no handle wrapper.
C13_HandleAsLastResort ==
    [][last'.op = "encode" =>
          /\ IsJson(last'.out)
          /\ (last'.value.t = "object" /\ last'.create_handles) =>
                 /\ Len(last'.puts) = 1
                 /\ last'.puts[1].id \notin IssuedIds
                 /\ WrapperType(last'.out) = "handle"
                 /\ OutField(last'.out, <<"h", "a", "n", "d", "l", "e", "_", "i", "d">>) = PyStr(last'.puts[1].id)
                 /\ Len(items') = Len(items) + 1
                 /\ \A i \in 1..Len(items) : items'[i] = items[i]
                 /\ items'[Len(items')] = [k |-> last'.puts[1].id, v |-> last'.value]
          /\ (last'.value.t = "object" /\ ~last'.create_handles) =>
                 /\ WrapperType(last'.out) = "repr"
                 /\ OutField(last'.out, <<"v", "a", "l", "u", "e">>).t = "str"
                 /\ StoreUnchanged
          /\ last'.value.t # "object" =>
                 /\ WrapperType(last'.out) \notin {"handle", "repr"}
                 /\ \A i \in 1..Len(last'.puts) :
                        /\ last'.puts[i].obj # last'.value
                        /\ last'.puts[i].obj.t = "object"
                 /\ ~last'.create_handles => StoreUnchanged]_vars

\* the second opaque value encoded became h2, and the store holds it there
C13_Witness ==
    /\ last.op = "encode"
    /\ last.value = ObjB
    /\ last.create_handles
    /\ WrapperType(last.out) = "handle"
    /\ OutField(last.out, <<"h", "a", "n", "d", "l", "e", "_", "i", "d">>) = PyStr(H2)
    /\ StoreGetFound(items, H2)
    /\ StoreGetValue(items, H2) = ObjB

----------------------------------------------------------------------------
(* Sequences and the cap *)

NestedSequence ==
    PyList(<<PyList(<<Num(1), Num(2), Num(3)>>), PyTuple(<<Num(4)>>), ObjA, ObjB>>)

\* out is what the rule gives for v under the cap: a sequence longer than the
\* cap is a truncated_list of its first max_items elements, a shorter one a
\* plain list, and each element that is a sequence follows the rule by itself
RECURSIVE SequenceRule(_, _, _)
SequenceRule(v, out, max_items) ==
    IF v.t \in {"list", "tuple", "set"}
    THEN IF Len(v.xs) > max_items
         THEN /\ WrapperType(out) = "truncated_list"
              /\ Len(out.xs) = 4
              /\ OutField(out, <<"t", "o", "t", "a", "l">>) = PyInt(Len(v.xs))
              /\ OutField(out, <<"r", "e", "t", "u", "r", "n", "e", "d">>) = PyInt(max_items)
              /\ OutField(out, <<"i", "t", "e", "m", "s">>).t = "list"
              /\ Len(OutField(out, <<"i", "t", "e", "m", "s">>).xs) = max_items
              /\ \A i \in 1..max_items :
                     SequenceRule(v.xs[i], OutField(out, <<"i", "t", "e", "m", "s">>).xs[i], max_items)
         ELSE /\ out.t = "list"
              /\ Len(out.xs) = Len(v.xs)
              /\ \A i \in 1..Len(v.xs) : SequenceRule(v.xs[i], out.xs[i], max_items)
    ELSE v.t \in {"none", "str", "int", "bool"} => out = v

\* C14: encoding a list, tuple or set of length n under the cap max_items
\* gives, when n > max_items, {type: truncated_list, items, total: n,
\* returned: max_items} with the first max_items elements encoded in order,
\* and when n <= max_items the plain list of the n encoded elements; every
\* sequence inside follows the same rule against its own length.
C14_SequencesCapped ==
    [][(last'.op = "encode" /\ last'.value.t \in {"list", "tuple", "set"}) =>
           SequenceRule(last'.value, last'.out, last'.max_items)]_vars

\* four elements under a cap of 2: the outer list is cut to two, its first
\* element (three long) is cut by itself, its second (one long) is plain
C14_Witness ==
    /\ last.op = "encode"
    /\ last.value = NestedSequence
    /\ last.max_items = 2
    /\ WrapperType(last.out) = "truncated_list"
    /\ OutField(last.out, <<"t", "o", "t", "a", "l">>) = PyInt(4)
    /\ OutField(last.out, <<"i", "t", "e", "m", "s">>).xs =
           <<PyDict(<<Field(<<"t", "y", "p", "e">>, PyStr(<<"t", "r", "u", "n", "c", "a", "t", "e", "d", "_", "l", "i", "s", "t">>)),
                      Field(<<"i", "t", "e", "m", "s">>, PyList(<<Num(1), Num(2)>>)),
                      Field(<<"t", "o", "t", "a", "l">>, PyInt(3)),
                      Field(<<"r", "e", "t", "u", "r", "n", "e", "d">>, PyInt(2))>>),
             PyList(<<Num(4)>>)>>

----------------------------------------------------------------------------
(* Iterators and the cap *)

Endless(v) == v.n = 1

Min(a, b) == IF a < b THEN a ELSE b

\* how many items the iterator v gives when asked for up to k
YieldsUpTo(v, k) == IF Endless(v) THEN k ELSE Min(Len(v.xs), k)

\* the i-th item the iterator v yields
Yielded(v, i) == v.xs[((i - 1) % Len(v.xs)) + 1]

\* C15: encoding an iterator that would yield n items (n unbounded for an
\* endless one) under the cap max_items gives {type: iterator} whose items
\* are the first min(n, max_items) items in iteration order, returned =
\* min(n, max_items), and truncated = true exactly when n > max_items; the
\* iterator is asked for min(n, max_items + 1) items, never more than
\* max_items + 1, so an endless iterator is encoded too.
C15_IteratorsCapped ==
    [][(last'.op = "encode" /\ last'.value.t = "iterator") =>
          /\ WrapperType(last'.out) = "iterator"
          /\ Len(last'.out.xs) = 4
          /\ OutField(last'.out, <<"r", "e", "t", "u", "r", "n", "e", "d">>) =
                 PyInt(YieldsUpTo(last'.value, last'.max_items))
          /\ OutField(last'.out, <<"t", "r", "u", "n", "c", "a", "t", "e", "d">>) =
                 PyBool(YieldsUpTo(last'.value, last'.max_items + 1) > last'.max_items)
          /\ OutField(last'.out, <<"i", "t", "e", "m", "s">>).t = "list"
          /\ Len(OutField(last'.out, <<"i", "t", "e", "m", "s">>).xs) =
                 YieldsUpTo(last'.value, last'.max_items)
          /\ \A i \in 1..YieldsUpTo(last'.value, last'.max_items) :
                 IF Yielded(last'.value, i).t = "object"
                 THEN last'.create_handles => last'.puts[i].obj = Yielded(last'.value, i)
                 ELSE OutField(last'.out, <<"i", "t", "e", "m", "s">>).xs[i] = Yielded(last'.value, i)
          /\ last'.taken = <<YieldsUpTo(last'.value, last'.max_items + 1)>>
          /\ last'.taken[1] <= last'.max_items + 1]_vars

\* an endless iterator under a cap of 2: two items, truncated, three taken
C15_Witness ==
    /\ last.op = "encode"
    /\ last.value = PyEndlessIterator(<<Num(1), Num(2)>>)
    /\ last.max_items = 2
    /\ last.out = PyDict(<<Field(<<"t", "y", "p", "e">>, PyStr(<<"i", "t", "e", "r", "a", "t", "o", "r">>)),
                           Field(<<"i", "t", "e", "m", "s">>, PyList(<<Num(1), Num(2)>>)),
                           Field(<<"t", "r", "u", "n", "c", "a", "t", "e", "d">>, PyBool(TRUE)),
                           Field(<<"r", "e", "t", "u", "r", "n", "e", "d">>, PyInt(2))>>)
    /\ last.taken = <<3>>

----------------------------------------------------------------------------
(* bytes, out and back *)

\* the caller sends back, as {"__bytes_base64__": s}, the text of the bytes
\* envelope it was just given
SendsBytesBack ==
    /\ last.op = "encode"
    /\ last.value.t = "bytes"
    /\ last'.op = "decode"
    /\ last'.value = BytesRef(OutField(last.out, <<"b", "a", "s", "e", "6", "4">>))

\* C16: Encode of a bytes value b is {type: bytes, size: len(b), base64: s}
\* with s text, and decoding {"__bytes_base64__": s} succeeds and gives
\* exactly b, the empty bytes included.
C16_BytesRoundTrip ==
    [][/\ (last'.op = "encode" /\ last'.value.t = "bytes") =>
              /\ WrapperType(last'.out) = "bytes"
              /\ Len(last'.out.xs) = 3
              /\ OutField(last'.out, <<"s", "i", "z", "e">>) = PyInt(Len(last'.value.b))
              /\ OutField(last'.out, <<"b", "a", "s", "e", "6", "4">>).t = "str"
       /\ SendsBytesBack => (last'.ok /\ last'.val = last.value)]_vars

\* four bytes went out as AQID+g== and came back
C16_Witness ==
    /\ last.op = "decode"
    /\ last.value = BytesRef(PyStr(<<"A", "Q", "I", "D", "+", "g", "=", "=">>))
    /\ last.ok
    /\ last.val = PyBytes(<<1, 2, 3, 250>>)

----------------------------------------------------------------------------
(* Objects with a special key *)

SpecialKeys == {PyStr(<<"_", "_", "h", "a", "n", "d", "l", "e", "_", "i", "d", "_", "_">>), PyStr(<<"_", "_", "b", "y", "t", "e", "s", "_", "b", "a", "s", "e", "6", "4", "_", "_">>), PyStr(<<"_", "_", "p", "a", "t", "h", "_", "_">>)}

IsScalar(v) == v.t \in {"none", "str", "int", "bool"}

\* an object that holds a special key together with another key
ManyKeys(v) ==
    /\ v.t = "dict"
    /\ Len(v.xs) >= 2
    /\ \E i \in 1..Len(v.xs) : v.xs[i].xs[1] \in SpecialKeys

\* values whose decoding cannot fail: scalars, valid bytes references, and
\* lists and generic mappings of such values
RECURSIVE SurelyDecodes(_)
SurelyDecodes(v) ==
    \/ IsScalar(v)
    \/ v.t = "list" /\ \A i \in 1..Len(v.xs) : SurelyDecodes(v.xs[i])
    \/ /\ v.t = "dict"
       /\ Len(v.xs) = 1
       /\ v.xs[1].xs[1] = PyStr(<<"_", "_", "b", "y", "t", "e", "s", "_", "b", "a", "s", "e", "6", "4", "_", "_">>)
       /\ v.xs[1].xs[2].t = "str"
       /\ B64Valid(v.xs[1].xs[2].s)
    \/ /\ v.t = "dict"
       /\ ~(Len(v.xs) = 1 /\ v.xs[1].xs[1] \in SpecialKeys)
       /\ \A i \in 1..Len(v.xs) : SurelyDecodes(v.xs[i].xs[2])

\* C17: an object that holds __handle_id__, __bytes_base64__ or __path__
\* together with another key is decoded as a generic mapping: when each of its
\* values decodes, decoding succeeds with a mapping of the same keys in the
\* same order, the scalar values (the special key's among them, whatever its
\* type) as they were, and neither the handle store nor the base URL is
\* consulted.
C17_SpecialOnlyWhenSingleKey ==
    [][(/\ last'.op = "decode"
        /\ ManyKeys(last'.value)
        /\ \A i \in 1..Len(last'.value.xs) : SurelyDecodes(last'.value.xs[i].xs[2])) =>
           /\ last'.ok
           /\ last'.val.t = "dict"
           /\ Len(last'.val.xs) = Len(last'.value.xs)
           /\ \A i \in 1..Len(last'.value.xs) :
                  /\ last'.val.xs[i].xs[1] = last'.value.xs[i].xs[1]
                  /\ IsScalar(last'.value.xs[i].xs[2]) =>
                         last'.val.xs[i].xs[2] = last'.value.xs[i].xs[2]
           /\ \A i \in 1..Len(last'.events) :
                  last'.events[i] \notin {"_HANDLE_STORE.get", "_resolve_base_url",
                                          "_create_path"}
           /\ items' = items]_vars

\* invalid base64 under __bytes_base64__ next to another key is kept as text,
\* while the bytes reference inside the other key's list is decoded
C17_Witness ==
    /\ last.op = "decode"
    /\ last.value = PyDict(<<Field(<<"_", "_", "b", "y", "t", "e", "s", "_", "b", "a", "s", "e", "6", "4", "_", "_">>, PyStr(<<"Q", "Q", "=">>)),
                             Field(<<"x">>, PyList(<<BytesRef(PyStr(<<"Q", "Q", "=", "=">>))>>))>>)
    /\ last.ok
    /\ last.val = PyDict(<<Field(<<"_", "_", "b", "y", "t", "e", "s", "_", "b", "a", "s", "e", "6", "4", "_", "_">>, PyStr(<<"Q", "Q", "=">>)),
                           Field(<<"x">>, PyList(<<PyBytes(<<65>>)>>))>>)

----------------------------------------------------------------------------
(* Special objects of the wrong shape *)

\* an object whose single key is key
SingleKey(v, key) == v.t = "dict" /\ Len(v.xs) = 1 /\ v.xs[1].xs[1] = PyStr(key)

Lacks(path_ref, key) == \A i \in 1..Len(path_ref.xs) : path_ref.xs[i].xs[1] # PyStr(key)

\* a base_url that is given and is no absolute HTTP/HTTPS URL
BadBaseUrl(base_url) ==
    \/ base_url.t \notin {"none", "str"}
    \/ /\ base_url.t = "str"
       /\ Strip(base_url.s) # <<>>
       /\ ~ValidateBaseUrl(base_url.s, "base_url").ok

WrongHandleRef(v) == SingleKey(v, <<"_", "_", "h", "a", "n", "d", "l", "e", "_", "i", "d", "_", "_">>) /\ v.xs[1].xs[2].t # "str"

WrongBytesRef(v) ==
    /\ SingleKey(v, <<"_", "_", "b", "y", "t", "e", "s", "_", "b", "a", "s", "e", "6", "4", "_", "_">>)
    /\ (v.xs[1].xs[2].t # "str" \/ ~B64Valid(v.xs[1].xs[2].s))

WrongPathRef(v) ==
    /\ SingleKey(v, <<"_", "_", "p", "a", "t", "h", "_", "_">>)
    /\ \/ v.xs[1].xs[2].t # "dict"
       \/ Lacks(v.xs[1].xs[2], <<"r", "e", "p", "o", "s", "i", "t", "o", "r", "y">>)
       \/ BadBaseUrl(MapGet(v.xs[1].xs[2].xs, <<"b", "a", "s", "e", "_", "u", "r", "l">>, PyNone))

PathRefLacksPath(v) ==
    /\ SingleKey(v, <<"_", "_", "p", "a", "t", "h", "_", "_">>)
    /\ v.xs[1].xs[2].t = "dict"
    /\ Lacks(v.xs[1].xs[2], <<"p", "a", "t", "h">>)

\* C18: decoding a single-key special object fails with a ValueError when the
\* value of __handle_id__ or of __bytes_base64__ is not a string, when
\* __path__ is not an object, when the base64 text is invalid, when __path__
\* lacks repository or lacks path, or when its base_url is invalid.
C18_WrongShapeFails ==
    (/\ last.op = "decode"
     /\ \/ WrongHandleRef(last.value)
        \/ WrongBytesRef(last.value)
        \/ WrongPathRef(last.value)
        \/ PathRefLacksPath(last.value)) =>
        (~last.ok /\ last.err.cls = "ValueError")

----------------------------------------------------------------------------
(* Handle references in arguments *)

IsHandleRef(v) == SingleKey(v, <<"_", "_", "h", "a", "n", "d", "l", "e", "_", "i", "d", "_", "_">>) /\ v.xs[1].xs[2].t = "str"

\* the handle ids v refers to, in the order decoding meets them
RECURSIVE RefsIn(_)
RECURSIVE RefsInEach(_)
RefsInEach(xs) == IF xs = <<>> THEN <<>> ELSE RefsIn(Head(xs)) \o RefsInEach(Tail(xs))

RefsIn(v) ==
    IF IsHandleRef(v) THEN <<v.xs[1].xs[2].s>>
    ELSE IF v.t = "list" THEN RefsInEach(v.xs)
    ELSE IF v.t = "dict" THEN RefsInEach([i \in 1..Len(v.xs) |-> v.xs[i].xs[2]])
    ELSE <<>>

\* v with every handle reference replaced by the object d holds under its id
RECURSIVE Resolved(_, _)
Resolved(v, d) ==
    IF IsHandleRef(v) THEN DictGet(d, v.xs[1].xs[2].s)
    ELSE IF v.t = "list" THEN PyList([i \in 1..Len(v.xs) |-> Resolved(v.xs[i], d)])
    ELSE IF v.t = "dict"
    THEN PyDict([i \in 1..Len(v.xs) |-> PyEntry(v.xs[i].xs[1], Resolved(v.xs[i].xs[2], d))])
    ELSE v

\* the ids a request refers to: positional arguments first, then keyword
RequestRefs(req) ==
    RefsInEach(req.positional_args)
    \o RefsInEach([i \in 1..Len(req.keyword_args) |-> req.keyword_args[i].xs[2]])

FirstAbsent(refs, d) ==
    refs[CHOOSE i \in 1..Len(refs) :
             ~DictHas(d, refs[i]) /\ \A j \in 1..(i - 1) : DictHas(d, refs[j])]

EventIndexes(rec, e) == {i \in 1..Len(rec.events) : rec.events[i] = e}

\* C19: of an invocation in either module whose arguments refer to handles at
\* any depth, positionally or by keyword: when every id referred to is in
\* the store, the method is called with each reference replaced by the object
\* stored under its id; when one is absent (never issued, or dropped) the
\* invocation fails with "Unknown handle_id ..." for the first absent id and
\* calls nothing.  Decoding leaves the store as it is: every entry stays in
\* place with its object, and entries are added only by the encoding of the
\* result, after the call.
C19_HandleRefsResolve ==
    [][(last'.op = "invoke" /\ RequestRefs(last'.req) # <<>>) =>
          /\ IF \A i \in 1..Len(RequestRefs(last'.req)) :
                    DictHas(items, RequestRefs(last'.req)[i])
             THEN /\ Called(last')
                  /\ last'.args = [i \in 1..Len(last'.req.positional_args) |->
                                      Resolved(last'.req.positional_args[i], items)]
                  /\ last'.kwargs = [i \in 1..Len(last'.req.keyword_args) |->
                                        PyEntry(last'.req.keyword_args[i].xs[1],
                                                Resolved(last'.req.keyword_args[i].xs[2],
                                                         items))]
             ELSE /\ ~last'.ok
                  /\ ~Called(last')
                  /\ last'.err = ValueError("Unknown handle_id "
                                            \o ReprStr(FirstAbsent(RequestRefs(last'.req), items))
                                            \o ".")
                  /\ items' = items
                  /\ counter' = counter
          /\ Len(items') >= Len(items)
          /\ \A i \in 1..Len(items) : items'[i] = items[i]
          /\ Len(items') - Len(items) = Cardinality(EventIndexes(last', "_HANDLE_STORE.put"))
          /\ \A i \in EventIndexes(last', "_HANDLE_STORE.put") :
                 \E j \in EventIndexes(last', "call") : j < i]_vars

\* h1 holds an object; a keyword argument that refers to it one level down
\* reached the method as that object
C19_Witness ==
    /\ last.op = "invoke"
    /\ last.req.keyword_args =
           <<Field(<<"s", "r", "c">>, PyDict(<<Field(<<"i", "n", "n", "e", "r">>, HandleRef(PyStr(H1)))>>))>>
    /\ Called(last)
    /\ DictHas(items, H1)
    /\ last.kwargs = <<Field(<<"s", "r", "c">>, PyDict(<<Field(<<"i", "n", "n", "e", "r">>, DictGet(items, H1))>>))>>
    /\ DictGet(items, H1).t = "object"

----------------------------------------------------------------------------
(* What List reports of an object that has changed since it was stored *)

\* the object as it was when put stored it under handle_id
PutTimeObject(handle_id) ==
    put_log[CHOOSE j \in 1..Len(put_log) : put_log[j].id = handle_id].obj

\* C20: the type label and the summary List reports for a handle are those of
\* the object as it was when it was put, also after a later invocation has
\* changed the object in place.
C20_ListReportsPutTimeSummary ==
    last.op = "list" =>
        \A i \in 1..Len(last.val) :
            /\ last.val[i].class_name = TypeName(PutTimeObject(last.val[i].handle_id))
            /\ last.val[i].summary = Repr(PutTimeObject(last.val[i].handle_id))

----------------------------------------------------------------------------
(* Every collection level and the cap *)

\* the entries out shows of the collection v: the items of a list or of a
\* truncated_list or iterator wrapper, the entries of an object
Rendered(v, out) ==
    IF v.t = "dict" THEN out.xs
    ELSE IF out.t = "list" THEN out.xs
    ELSE OutField(out, <<"i", "t", "e", "m", "s">>).xs

\* no collection level of v is rendered in out with more than max_items
\* entries
RECURSIVE LevelsBounded(_, _, _)
LevelsBounded(v, out, max_items) ==
    IF v.t \in {"list", "tuple", "set", "iterator"}
    THEN /\ Len(Rendered(v, out)) <= max_items
         /\ \A i \in 1..Len(Rendered(v, out)) :
                \/ Endless(v)
                \/ LevelsBounded(v.xs[i], Rendered(v, out)[i], max_items)
    ELSE IF v.t = "dict"
    THEN /\ Len(Rendered(v, out)) <= max_items
         /\ \A i \in 1..Len(Rendered(v, out)) :
                LevelsBounded(v.xs[i].xs[2], Rendered(v, out)[i].xs[2], max_items)
    ELSE TRUE

\* C26: in any encoded result, no collection level of the value (list, tuple,
\* set, lazy sequence or mapping) is rendered with more than max_items
\* entries.
C26_EveryLevelCapped ==
    last.op = "encode" => LevelsBounded(last.value, last.out, last.max_items)

----------------------------------------------------------------------------
(* How often an invocation calls, and what a failing one leaves behind *)

\* how many times the invocation called the method
Calls(rec) == Cardinality({i \in 1..Len(rec.events) : rec.events[i] = "call"})

\* the request passes every check of the module that runs
PassesChecks(req) == ReachesCallable(req) /\ ~AttributeNotCallable(req)

\* C22: one invoke request calls the target method exactly once when all
\* checks and the decoding of its arguments succeed and not at all otherwise;
\* a call that raised or returned an awaitable is not made again.
C22_NoRetry ==
    [][last'.op = "invoke" =>
          LET Decodes(dec) ==
                  /\ Calls(last') = IF PassesChecks(last'.req) /\ dec.ok THEN 1 ELSE 0
                  /\ (last'.outcome.raised \/ last'.outcome.val.t = "awaitable") =>
                         Calls(last') = 1
          IN Decodes(DecodeArguments(last'.req, [items |-> items, settings |-> settings,
                                                 entry |-> entry]))]_vars

\* the method returned an awaitable: the invocation failed after one call
C22_Witness ==
    /\ last.op = "invoke"
    /\ ~last.outcome.raised
    /\ last.outcome.val.t = "awaitable"
    /\ ~last.ok
    /\ Calls(last) = 1

\* C27: an invocation that fails, at a check, while its arguments are
\* decoded, because the method raised or because it returned an awaitable,
\* leaves the store as it was: the same entries and the same counter.  The
\* store grows only by an invocation that called its method, got a value and
\* succeeded, and then by as many entries as the encoding put.
C27_FailedInvokeKeepsStore ==
    [][/\ (last'.op = "invoke" /\ ~last'.ok) =>
              /\ items' = items
              /\ counter' = counter
              /\ put_log' = put_log
       /\ (Len(items') > Len(items) \/ counter' # counter) =>
              /\ last'.op = "invoke"
              /\ last'.ok
              /\ Calls(last') = 1
              /\ ~last'.outcome.raised
              /\ last'.outcome.val.t # "awaitable"
              /\ counter' - counter = Len(items') - Len(items)
              /\ counter' - counter =
                     Cardinality({i \in 1..Len(last'.events) :
                                     last'.events[i] = "_HANDLE_STORE.put"})]_vars

\* with h1 in the store, an invocation whose base64 argument is not valid
\* failed before the call, and the store still holds h1 alone
C27_Witness ==
    /\ last.op = "invoke"
    /\ ~last.ok
    /\ PassesChecks(last.req)
    /\ Calls(last) = 0
    /\ last.req.positional_args = <<PyInt(5)>>
    /\ Len(items) = 1
    /\ DictHas(items, H1)
    /\ counter = 1

----------------------------------------------------------------------------
(* The handle tools under concurrent callers.  drop_artifactory_handle runs *)
(* _drop_handle_sync on a worker thread: drop() and count() each take the   *)
(* lock on their own.  invoke_artifactory_handle_method looks the handle up *)
(* first and then hands _invoke_method_sync, bound to the object it found,  *)
(* to a worker thread.                                                      *)

\* handles._drop_handle_sync, lines 51-53: a blank id raises before the store
\* is touched
T_DropHandleCall(t, handle_id) ==
    /\ entry = "tools"
    /\ pc[t] = "idle"
    /\ IF Strip(handle_id) = <<>>
       THEN /\ last' = [op |-> "drop_handle", arg |-> handle_id, ok |-> FALSE,
                        err |-> ValueError(EmptyHandleId)]
            /\ UNCHANGED <<pc, loc>>
       ELSE /\ Goto(t, "drop_handle_drop",
                    [op |-> "drop_handle", arg |-> handle_id, id |-> Strip(handle_id)])
            /\ UNCHANGED last
    /\ UNCHANGED <<config, remote, items, counter, lock, put_log, drop_log>>

\* line 55: existed = _HANDLE_STORE.drop(normalized), the lock taken and left
T_DropHandleDrop(t) ==
    /\ pc[t] = "drop_handle_drop"
    /\ CanEnter(t)
    /\ items' = StoreDropItems(items, loc[t].id)
    /\ drop_log' = DropLogged(loc[t].id)
    /\ Goto(t, "drop_handle_count",
            [op |-> "drop_handle", arg |-> loc[t].arg, id |-> loc[t].id,
             existed |-> StoreDropResult(items, loc[t].id),
             left |-> Len(items')])
    /\ UNCHANGED <<config, remote, counter, lock, last, put_log>>

\* lines 57-62: remaining_handles=_HANDLE_STORE.count(), the lock taken again;
\* `left` remembers how many handles the removal step left
T_DropHandleCount(t) ==
    /\ pc[t] = "drop_handle_count"
    /\ CanEnter(t)
    /\ last' = [op |-> "drop_handle", arg |-> loc[t].arg, ok |-> TRUE, err |-> NoError,
                val |-> [handle_id |-> loc[t].id,
                         dropped |-> TRUE,
                         existed |-> loc[t].existed,
                         remaining_handles |-> StoreCount(items)],
                left |-> loc[t].left]
    /\ Return(t)
    /\ UNCHANGED <<config, remote, items, counter, lock, put_log, drop_log>>

\* the requests invoke_artifactory_handle_method gets
HandleMethodRequests ==
    {[handle_id |-> handle_id, method |-> method, positional_args |-> positional,
      keyword_args |-> <<>>, max_items |-> PyNone] :
        handle_id \in {H1, H2},
        method \in {<<"g", "e", "t", "_", "a">>, <<"g", "e", "t", "_", "r", "e", "p", "o">>},
        positional \in {<<>>, <<HandleRef(PyStr(H1))>>}}

\* target=handle of the partial: the object the lookup returned, whatever the
\* store holds under the id when the worker thread runs
TargetLookedUpLate(handle, d, handle_id) ==
    IF DictHas(d, handle_id) THEN DictGet(d, handle_id) ELSE DummyTarget
BoundTarget(handle, d, handle_id) == handle

\* invoke_artifactory_handle_method up to run_sync: handle =
\* _HANDLE_STORE.get(handle_id), then the partial is built
T_InvokeHandleLookup(t, req) ==
    /\ pc[t] = "idle"
    /\ CanEnter(t)
    /\ IF StoreGetFound(items, req.handle_id)
       THEN /\ Goto(t, "invoke_run",
                    [op |-> "invoke_handle", id |-> req.handle_id,
                     handle |-> StoreGetValue(items, req.handle_id),
                     req |-> req])
            /\ UNCHANGED last
       ELSE /\ last' = [op |-> "handle_lookup", id |-> req.handle_id, ok |-> FALSE,
                        err |-> ValueError(UnknownHandle(req.handle_id))]
            /\ UNCHANGED <<pc, loc>>
    /\ UNCHANGED <<config, remote, items, counter, lock, put_log, drop_log>>

\* the worker thread runs the partial: _invoke_method_sync as one step, taken
\* when no other thread is inside the store; `stale` is history: the id had
\* left the store when the worker ran
T_InvokeHandleRun(t) ==
    /\ pc[t] = "invoke_run"
    /\ CanEnter(t)
    /\ Return(t)
    /\ UNCHANGED lock
    /\ InvokeMethodSync(
           [target |-> BoundTarget(loc[t].handle, items, loc[t].id),
            target_label |-> HandleLabel(loc[t].id, loc[t].handle),
            method |-> loc[t].req.method,
            positional_args |-> loc[t].req.positional_args,
            keyword_args |-> loc[t].req.keyword_args,
            max_items |-> loc[t].req.max_items,
            stale |-> ~DictHas(items, loc[t].id)])

\* the store calls that run beside the tools
ToolThreadCalls ==
    {[op |-> "put", obj |-> ObjA], [op |-> "drop", id |-> H1]}

NextToolThreads ==
    \E t \in Threads :
        \/ \E call \in ToolThreadCalls : T_Call(t, call)
        \/ T_Enter(t)
        \/ T_PutInc(t)
        \/ T_PutInsert(t)
        \/ T_DropPop(t)
        \/ \E handle_id \in {H1, H2, <<" ">>} : T_DropHandleCall(t, handle_id)
        \/ T_DropHandleDrop(t)
        \/ T_DropHandleCount(t)
        \/ \E req \in HandleMethodRequests : T_InvokeHandleLookup(t, req)
        \/ T_InvokeHandleRun(t)

SpecToolThreads == InitInvokeAny /\ [][NextToolThreads]_vars

----------------------------------------------------------------------------
(* Claims about the handle tools under concurrent callers *)

\* C29: the remaining_handles a drop reports is the number of handles the
\* store held right after that call's own removal step, also while other
\* threads put and drop, and it is never negative.
C29_RemainingAfterRemoval ==
    (last.op = "drop_handle" /\ last.ok) =>
        /\ last.val.remaining_handles = last.left
        /\ last.val.remaining_handles >= 0

\* the worker thread t finishes the invocation it was handed
RunsInvocation(t) == pc[t] = "invoke_run" /\ pc'[t] = "idle"

----------------------------------------------------------------------------
(* The specification of _create_path: repositories and item paths as a     *)
(* caller may send them                                                     *)

RepositoryInputs ==
    {<<"l", "i", "b", "s">>, <<" ", "l", "i", "b", "s", "-", "r", "e", "l", "e", "a", "s", "e", ".", "1", " ">>, <<"R", "e", "p", "o", "_", "2">>, <<".", ".">>, <<>>, <<" ">>, <<"a", "/", "b">>, <<"a", " ", "b">>, <<"a", "\\", "b">>, <<"l", "i", "b", "$">>}

ItemPathInputs ==
    {<<>>, <<".">>, <<"/">>, <<" ", "/", " ">>, <<"/", "/">>, <<".", "/">>, <<"a">>, <<"a", "/", "b">>, <<"/", "a", "/", "b", "/">>, <<"a", "/", "/", "b">>, <<"a", "/", ".", "/", "b">>, <<".", "/", "a">>,
     <<"a", "\\", "b">>, <<"a", "\\", ".", "\\", "b", "/", "/", "c">>, <<".", ".">>, <<" ", ".", ".", " ">>, <<".", ".", "/", "a">>, <<"a", "/", ".", ".">>, <<"a", "/", ".", ".", "/", "b">>, <<".", ".", "\\", "a">>, <<"a", "\\", ".", ".", "\\", "b">>,
     <<"a", ".", ".", "b">>, <<".", ".", ".">>, <<"a", "/", " ", ".", ".">>, <<".", "a">>}

CreatedBaseUrl == <<"h", "t", "t", "p", "s", ":", "/", "/", "h", "/", "a", "r", "t", "i", "f", "a", "c", "t", "o", "r", "y">>

\* _create_path(base_url, repository, path) of either module
CreatePathCall(repository, item_path) ==
    /\ LET Made(r) ==
               last' = [op |-> "create_path", base_url |-> CreatedBaseUrl,
                        repository |-> repository, item_path |-> item_path,
                        ok |-> r.ok,
                        err |-> IF r.ok THEN NoError ELSE ValueError(r.err),
                        path |-> IF r.ok THEN r.val ELSE PyNone]
       IN Made(CreatePath(CreatedBaseUrl, repository, item_path, settings))
    /\ UNCHANGED <<config, remote, items, counter, threadVars, put_log, drop_log>>

NextPath ==
    \E repository \in RepositoryInputs, item_path \in ItemPathInputs :
        CreatePathCall(repository, item_path)

SpecPath == InitInvokeAny /\ [][NextPath]_vars

----------------------------------------------------------------------------
(* Claims about _create_path *)

\* the segments of a path as sent: the text between separators of either kind
RawSegments(path) == Split(ReplaceChar(path, "\\", "/"), "/")

HasDotDotSegment(path) ==
    \E i \in 1..Len(RawSegments(path)) : RawSegments(path)[i] = <<".", ".">>

\* the repository is one or more of letters, digits, '.', '_', '-'
MatchesRepoPattern(repo) ==
    repo # <<>> /\ \A i \in 1..Len(repo) : repo[i] \in RepoChars

\* forward slashes only, and no segment that is empty, '.' or '..'
CleanRelative(relative) ==
    /\ \A i \in 1..Len(relative) : relative[i] # "\\"
    /\ relative # <<>> =>
           \A i \in 1..Len(Split(relative, "/")) :
               Split(relative, "/")[i] \notin {<<>>, <<".">>, <<".", ".">>}

\* C25: _create_path either fails or yields a path whose repository matches
\* [A-Za-z0-9._-]+ and whose relative path has forward slashes only and no
\* '..', '.' or empty segment; an input with a '..' segment always fails; the
\* inputs '', '.' and '/' give the repository root.
C25_CreatePathSafe ==
    last.op = "create_path" =>
        /\ last.ok =>
               /\ MatchesRepoPattern(last.path.xs[1].s)
               /\ CleanRelative(last.path.xs[2].s)
               /\ last.path.s =
                      IF last.path.xs[2].s = <<>>
                      THEN last.base_url \o <<"/">> \o last.path.xs[1].s
                      ELSE last.base_url \o <<"/">> \o last.path.xs[1].s
                               \o <<"/">> \o last.path.xs[2].s
        /\ HasDotDotSegment(last.item_path) => ~last.ok
        /\ (last.item_path \in {<<>>, <<".">>, <<"/">>}
                /\ MatchesRepoPattern(Strip(last.repository))) =>
               /\ last.ok
               /\ last.path.xs[2].s = <<>>
               /\ last.path.s = last.base_url \o <<"/">> \o Strip(last.repository)

\* backslashes, a '.' segment and an empty segment were cleaned away
C25_Witness ==
    /\ last.op = "create_path"
    /\ last.item_path = <<"a", "\\", ".", "\\", "b", "/", "/", "c">>
    /\ last.ok
    /\ last.path.xs[2].s = <<"a", "/", "b", "/", "c">>

----------------------------------------------------------------------------
(* Authentication settings: _validate_auth_inputs when the settings are     *)
(* read from the environment, _auth_kwargs whenever a client object is made *)

\* bool(value) of a str or None
Truthy(value) == value.t = "str" /\ value.s # <<>>

BothOrNeither == "Set both ARTIFACTORY_USERNAME and ARTIFACTORY_PASSWORD, or neither."
OnlyOneMethod ==
    "Configure only one authentication method: token, api key, or username/password."
EmptyToken == "ARTIFACTORY_TOKEN cannot be empty."
HeaderOnlyToken ==
    "ARTIFACTORY_TOKEN appears to be only a JWT header segment, not a full access token. "
    \o "Use the complete token string."

\* a token that is the first segment of a JWT and nothing more:
\* {"alg":"x","kid":"y","typ":"JWT"} in base64
JwtHeaderToken == <<"e", "y", "J", "h", "b", "G", "c", "i", "O", "i", "J", "4", "I", "i", "w", "i", "a", "2", "l", "k", "I", "j", "o", "i", "e", "S", "I", "s", "I", "n", "R", "5", "c", "C", "I", "6", "I", "k", "p", "X", "V", "C", "J", "9">>

\* settings._looks_like_jwt_header_only, worked out for the tokens of
\* TokenInputs: only JwtHeaderToken decodes to a JSON object that has the keys
\* alg, kid and typ
LooksLikeJwtHeaderOnly(token) ==
    /\ \A i \in 1..Len(token) : token[i] # "."
    /\ token = JwtHeaderToken

\* settings._validate_token_value
ValidateTokenValue(token) ==
    IF Strip(token) = <<>> THEN Fail(EmptyToken)
    ELSE IF LooksLikeJwtHeaderOnly(Strip(token)) THEN Fail(HeaderOnlyToken)
    ELSE Pass(PyNone)

\* auth_methods = int(bool(token)) + int(bool(api_key)) + int(bool(username and password))
AuthMethods(a) ==
    (IF Truthy(a.token) THEN 1 ELSE 0)
    + (IF Truthy(a.api_key) THEN 1 ELSE 0)
    + (IF Truthy(a.username) /\ Truthy(a.password) THEN 1 ELSE 0)

\* _validate_auth_inputs of settings.py, and of server.py, which does not look
\* at the token's value
ValidateAuthInputsLax(a, module) == Pass(PyNone)
ValidateAuthInputs(a, module) ==
    IF (Truthy(a.username) /\ ~Truthy(a.password))
           \/ (Truthy(a.password) /\ ~Truthy(a.username))
    THEN Fail(BothOrNeither)
    ELSE IF AuthMethods(a) > 1 THEN Fail(OnlyOneMethod)
    ELSE IF module = "tools" /\ Truthy(a.token) THEN ValidateTokenValue(a.token.s)
    ELSE Pass(PyNone)

\* _auth_kwargs() over the settings a; verify and timeout as an environment
\* that does not set them leaves them
AuthKwargs(a) ==
    <<Field(<<"v", "e", "r", "i", "f", "y">>, PyBool(TRUE)), Field(<<"t", "i", "m", "e", "o", "u", "t">>, PyInt(30))>>
    \o (IF Truthy(a.token) THEN <<Field(<<"t", "o", "k", "e", "n">>, a.token)>>
        ELSE IF Truthy(a.api_key) THEN <<Field(<<"a", "p", "i", "k", "e", "y">>, a.api_key)>>
        ELSE IF Truthy(a.username) /\ Truthy(a.password)
        THEN <<Field(<<"a", "u", "t", "h">>, PyTuple(<<a.username, a.password>>))>>
        ELSE <<>>)

\* what the environment may hold in ARTIFACTORY_USERNAME, _PASSWORD, _API_KEY
\* and _TOKEN: unset, empty, or text
AuthInputs ==
    [username : {PyNone, PyStr(<<>>), PyStr(<<"u">>)},
     password : {PyNone, PyStr(<<>>), PyStr(<<"p">>)},
     api_key : {PyNone, PyStr(<<>>), PyStr(<<"k">>)},
     token : {PyNone, PyStr(<<>>), PyStr(<<" ">>), PyStr(<<"t", "o", "k">>), PyStr(JwtHeaderToken)}]

\* ServerSettings.from_env(), the part that reads the credentials: the module
\* is imported once, and a failure ends the process
FromEnv(a) ==
    /\ last.op = "init"
    /\ LET Loaded(checked) ==
               last' = [op |-> "from_env", env |-> a, ok |-> checked.ok,
                        err |-> IF checked.ok THEN NoError ELSE ValueError(checked.err)]
       IN Loaded(ValidateAuthInputs(a, entry))
    /\ UNCHANGED <<config, remote, items, counter, threadVars, put_log, drop_log>>

\* _create_root / _create_path: path_cls(url, **_auth_kwargs())
CreateClient ==
    /\ last.op \in {"from_env", "auth_kwargs"}
    /\ last.ok
    /\ last' = [op |-> "auth_kwargs", env |-> last.env, ok |-> TRUE, err |-> NoError,
                kwargs |-> AuthKwargs(last.env)]
    /\ UNCHANGED <<config, remote, items, counter, threadVars, put_log, drop_log>>

NextAuth ==
    \/ \E a \in AuthInputs : FromEnv(a)
    \/ CreateClient

SpecAuth == InitInvokeAny /\ [][NextAuth]_vars

----------------------------------------------------------------------------
(* Claims about authentication *)

\* the authentication arguments among the keyword arguments of a client
AuthKeys(kwargs) == {k \in {<<"t", "o", "k", "e", "n">>, <<"a", "p", "i", "k", "e", "y">>, <<"a", "u", "t", "h">>} : MapHas(kwargs, k)}

\* the environment sets more than one method, or half of username+password
Overconfigured(a) ==
    \/ AuthMethods(a) > 1
    \/ Truthy(a.username) /= Truthy(a.password)

\* C24 as stated: every client gets exactly one of token, apikey, auth, and
\* an environment that sets more than one method, or a username without a
\* password or the reverse, is rejected.
C24_ExactlyOneMethod ==
    /\ (last.op = "from_env" /\ Overconfigured(last.env)) => ~last.ok
    /\ last.op = "auth_kwargs" => Cardinality(AuthKeys(last.kwargs)) = 1

\* C24 amended: a client gets at most one of token, apikey, auth: the one
\* method the environment sets, with its value, and none of them when the
\* environment sets no credentials; an environment that sets more than one
\* method, or a username without a password or the reverse, is rejected.
C24_AtMostOneMethod ==
    /\ (last.op = "from_env" /\ Overconfigured(last.env)) => ~last.ok
    /\ last.op = "auth_kwargs" =>
           /\ Cardinality(AuthKeys(last.kwargs)) = AuthMethods(last.env)
           /\ Cardinality(AuthKeys(last.kwargs)) <= 1
           /\ Truthy(last.env.token) =>
                  MapGet(last.kwargs, <<"t", "o", "k", "e", "n">>, PyNone) = last.env.token
           /\ Truthy(last.env.api_key) =>
                  MapGet(last.kwargs, <<"a", "p", "i", "k", "e", "y">>, PyNone) = last.env.api_key
           /\ Truthy(last.env.username) =>
                  MapGet(last.kwargs, <<"a", "u", "t", "h">>, PyNone)
                      = PyTuple(<<last.env.username, last.env.password>>)

\* a client made with username and password, the other two set but empty
C24_Witness ==
    /\ last.op = "auth_kwargs"
    /\ AuthKeys(last.kwargs) = {<<"a", "u", "t", "h">>}
    /\ last.env.api_key = PyStr(<<>>)
    /\ last.env.token = PyStr(<<>>)

----------------------------------------------------------------------------
(* artifact_ops.py (server.py 692-883): the convenience operations.  Each   *)
(* is a function of the request, the settings, the server's artifacts and   *)
(* the fault the network has in store; `net` lists the repository           *)
(* operations performed, in order.                                          *)

NoFault == [at |-> 0, exc |-> NoError]

\* the k-th repository operation of the call fails with exc
FaultAt(k, exc) == [at |-> k, exc |-> exc]

OpFail(err, net, rem) ==
    [ok |-> FALSE, err |-> err, val |-> PyNone, net |-> net, remote |-> rem]
OpPass(val, net, rem) ==
    [ok |-> TRUE, err |-> NoError, val |-> val, net |-> net, remote |-> rem]

\* the next repository operation is the one that fails
Fails(fault, net) == fault.at = Len(net) + 1

FileNotFoundError(message) == PyError("FileNotFoundError", message)
FileExistsError(message) == PyError("FileExistsError", message)

MaxItemsBetween == "max_items must be between 1 and 1000."
EmptyPattern == "pattern cannot be empty."
MaxBytesBetween == "max_bytes must be between 1 and 5000000."
EmptyEncoding == "encoding cannot be empty."
UnsupportedEncoding(encoding) == "Unsupported encoding: " \o ReprStr(encoding) \o "."
NotAFile == "path must reference a file in the repository."
ContentTooLarge == "content is too large. Maximum supported payload is 5 MB."

\* codecs.lookup(candidate) finds a codec: of the codecs, the three whose
\* bytes for printable ASCII text are the characters' codes, under the
\* spellings codecs.lookup takes for them
KnownEncoding(candidate) ==
    ReplaceChar(Lower(candidate), "-", "_")
        \in {<<"u", "t", "f", "_", "8">>, <<"u", "t", "f", "8">>, <<"a", "s", "c", "i", "i">>, <<"l", "a", "t", "i", "n", "_", "1">>, <<"l", "a", "t", "i", "n", "1">>}

ValidateEncodingLax(encoding) == Pass(PyStr(Strip(encoding)))

\* settings._validate_encoding
ValidateEncoding(encoding) ==
    IF Strip(encoding) = <<>> THEN Fail(EmptyEncoding)
    ELSE IF ~KnownEncoding(Strip(encoding)) THEN Fail(UnsupportedEncoding(encoding))
    ELSE Pass(PyStr(Strip(encoding)))

\* ArtifactEntry(...) of _list_artifacts_sync for one child
ArtifactEntry(child, root_in_repo, is_dir, with_stats, stat) ==
    [uri |-> child.s,
     name |-> LastSegment(child.s),
     path |-> IF root_in_repo # <<>>
              THEN SubSeq(PathInRepo(child), Len(root_in_repo) + 2, Len(PathInRepo(child)))
              ELSE PathInRepo(child),
     is_dir |-> is_dir,
     size |-> IF with_stats /\ ~is_dir THEN PyInt(stat.size) ELSE PyNone,
     last_modified |-> IF with_stats THEN PyStr(stat.last_modified) ELSE PyNone]

\* the loop of _list_artifacts_sync over the children not yet visited
RECURSIVE ListLoop(_, _, _, _, _, _, _)
ListLoop(children, found, net, req, rem, fault, root_in_repo) ==
    IF children = <<>>
    THEN [ok |-> TRUE, err |-> NoError, items |-> found, truncated |-> FALSE, net |-> net]
    ELSE IF Len(found) >= req.max_items
    THEN [ok |-> TRUE, err |-> NoError, items |-> found, truncated |-> TRUE, net |-> net]
    ELSE IF Fails(fault, net)
    THEN [ok |-> FALSE, err |-> fault.exc, items |-> found, truncated |-> FALSE,
          net |-> Append(net, "is_dir")]
    ELSE IF PathIsDir(rem, Head(children)) /\ ~req.include_directories
    THEN ListLoop(Tail(children), found, Append(net, "is_dir"), req, rem, fault,
                  root_in_repo)
    ELSE IF req.include_stats /\ Fails(fault, Append(net, "is_dir"))
    THEN [ok |-> FALSE, err |-> fault.exc, items |-> found, truncated |-> FALSE,
          net |-> net \o <<"is_dir", "stat">>]
    ELSE ListLoop(Tail(children),
                  Append(found,
                         ArtifactEntry(Head(children), root_in_repo,
                                       PathIsDir(rem, Head(children)), req.include_stats,
                                       PathStat(rem, Head(children)))),
                  IF req.include_stats THEN net \o <<"is_dir", "stat">>
                  ELSE Append(net, "is_dir"),
                  req, rem, fault, root_in_repo)

\* artifact_ops._list_artifacts_sync
ListArtifactsSync(req, env, rem, fault) ==
    LET Result(base, root, loop) ==
            IF ~loop.ok THEN OpFail(loop.err, loop.net, rem)
            ELSE OpPass([base_url |-> base.val.s,
                         repository |-> root.xs[1].s,
                         path |-> root.xs[2].s,
                         count |-> Len(loop.items),
                         truncated |-> loop.truncated,
                         items |-> loop.items],
                        loop.net, rem)
        Iterate(base, root) ==
            IF Fails(fault, <<"exists", "is_dir">>)
            THEN OpFail(fault.exc,
                        <<"exists", "is_dir", IF req.recursive THEN "glob" ELSE "iterdir">>,
                        rem)
            ELSE IF req.recursive
            THEN Result(base, root,
                        ListLoop(PathGlob(rem, root,
                                          IF req.pattern = <<"*">> THEN <<"*", "*", "/", "*">> ELSE req.pattern),
                                 <<>>, <<"exists", "is_dir", "glob">>, req, rem, fault,
                                 PathInRepo(root)))
            ELSE Result(base, root,
                        ListLoop(IF req.pattern = <<"*">> THEN PathIterDir(rem, root)
                                 ELSE SelectSeq(PathIterDir(rem, root),
                                                LAMBDA child :
                                                    FnMatch(LastSegment(child.s), req.pattern)),
                                 <<>>, <<"exists", "is_dir", "iterdir">>, req, rem, fault,
                                 PathInRepo(root)))
        Rooted(base, root) ==
            IF Fails(fault, <<>>) THEN OpFail(fault.exc, <<"exists">>, rem)
            ELSE IF ~PathExists(rem, root)
            THEN OpFail(FileNotFoundError("Path does not exist: " \o Str(root.s)),
                        <<"exists">>, rem)
            ELSE IF Fails(fault, <<"exists">>)
            THEN OpFail(fault.exc, <<"exists", "is_dir">>, rem)
            ELSE IF ~PathIsDir(rem, root)
            THEN OpFail(ValueError("Path is not a directory: " \o Str(root.s)),
                        <<"exists", "is_dir">>, rem)
            ELSE Iterate(base, root)
        Created(base, created) ==
            IF ~created.ok THEN OpFail(ValueError(created.err), <<>>, rem)
            ELSE Rooted(base, created.val)
        WithBase(base) ==
            IF ~base.ok THEN OpFail(ValueError(base.err), <<>>, rem)
            ELSE Created(base, CreatePath(base.val.s, req.repository, req.path, env.settings))
    IN IF req.max_items < 1 \/ req.max_items > 1000
       THEN OpFail(ValueError(MaxItemsBetween), <<>>, rem)
       ELSE IF Strip(req.pattern) = <<>> THEN OpFail(ValueError(EmptyPattern), <<>>, rem)
       ELSE WithBase(ResolveBaseUrl(req.base_url, env))

\* artifact_ops._get_artifact_details_sync; st is the handle store as
\* _serialize_value finds it
GetArtifactDetailsSync(req, env, rem, fault, st) ==
    LET Result(base, target, stat, net) ==
            OpPass([base_url |-> base.val.s,
                    repository |-> target.xs[1].s,
                    path |-> target.xs[2].s,
                    uri |-> target.s,
                    is_dir |-> stat.is_dir,
                    stat |-> stat,
                    properties |->
                        IF req.include_properties
                        THEN SerializeValue(RemoteProperties,
                                            env.settings.mcp_default_max_items, TRUE, st).out
                        ELSE PyDict(<<>>),
                    download_stats |->
                        IF req.include_download_stats /\ ~stat.is_dir
                        THEN SerializeValue(RemoteDownloadStats,
                                            env.settings.mcp_default_max_items, TRUE, st).out
                        ELSE PyNone],
                   net, rem)
        Properties(base, target, stat, net) ==
            IF ~req.include_properties THEN Result(base, target, stat, net)
            ELSE IF Fails(fault, net) THEN OpFail(fault.exc, Append(net, "properties"), rem)
            ELSE Result(base, target, stat, Append(net, "properties"))
        Downloads(base, target, stat, net) ==
            IF ~(req.include_download_stats /\ ~stat.is_dir)
            THEN Properties(base, target, stat, net)
            ELSE IF Fails(fault, net) THEN OpFail(fault.exc, Append(net, "download_stats"), rem)
            ELSE Properties(base, target, stat, Append(net, "download_stats"))
        Found(base, target) ==
            IF Fails(fault, <<>>) THEN OpFail(fault.exc, <<"exists">>, rem)
            ELSE IF ~PathExists(rem, target)
            THEN OpFail(FileNotFoundError("Artifact not found: " \o Str(target.s)),
                        <<"exists">>, rem)
            ELSE IF Fails(fault, <<"exists">>) THEN OpFail(fault.exc, <<"exists", "stat">>, rem)
            ELSE Downloads(base, target, PathStat(rem, target), <<"exists", "stat">>)
        Created(base, created) ==
            IF ~created.ok THEN OpFail(ValueError(created.err), <<>>, rem)
            ELSE Found(base, created.val)
        WithBase(base) ==
            IF ~base.ok THEN OpFail(ValueError(base.err), <<>>, rem)
            ELSE Created(base, CreatePath(base.val.s, req.repository, req.path, env.settings))
    IN WithBase(ResolveBaseUrl(req.base_url, env))

\* _read_artifact_text_sync and _write_artifact_text_sync up to the path
\* object: base URL, path, file check, _create_path
FileTarget(req, env) ==
    LET Created(base, clean, created) ==
            IF ~created.ok THEN Fail(created.err)
            ELSE [ok |-> TRUE, err |-> "", val |-> created.val, base_url |-> base.val.s]
        Cleaned(base, clean) ==
            IF ~clean.ok THEN Fail(clean.err)
            ELSE IF clean.val.s = <<>> THEN Fail(NotAFile)
            ELSE Created(base, clean,
                         CreatePath(base.val.s, req.repository, clean.val.s, env.settings))
        WithBase(base) ==
            IF ~base.ok THEN Fail(base.err) ELSE Cleaned(base, ValidatePath(req.path))
    IN WithBase(ResolveBaseUrl(req.base_url, env))

\* artifact_ops._read_artifact_text_sync
ReadArtifactTextSync(req, env, rem, fault) ==
    LET Read(encoding, file, size) ==
            IF size > req.max_bytes
            THEN OpFail(ValueError("Artifact size " \o Str(DecStr(size))
                                   \o " exceeds max_bytes " \o Str(DecStr(req.max_bytes))
                                   \o ". Increase max_bytes to continue."),
                        <<"exists", "is_dir", "stat">>, rem)
            ELSE IF Fails(fault, <<"exists", "is_dir", "stat">>)
            THEN OpFail(fault.exc, <<"exists", "is_dir", "stat", "read_text">>, rem)
            ELSE OpPass([base_url |-> file.base_url,
                         repository |-> file.val.xs[1].s,
                         path |-> file.val.xs[2].s,
                         uri |-> file.val.s,
                         encoding |-> encoding.val.s,
                         size |-> size,
                         content |-> PathReadText(rem, file.val)],
                        <<"exists", "is_dir", "stat", "read_text">>, rem)
        Found(encoding, file) ==
            IF Fails(fault, <<>>) THEN OpFail(fault.exc, <<"exists">>, rem)
            ELSE IF ~PathExists(rem, file.val)
            THEN OpFail(FileNotFoundError("Artifact not found: " \o Str(file.val.s)),
                        <<"exists">>, rem)
            ELSE IF Fails(fault, <<"exists">>)
            THEN OpFail(fault.exc, <<"exists", "is_dir">>, rem)
            ELSE IF PathIsDir(rem, file.val)
            THEN OpFail(ValueError("Artifact is a directory: " \o Str(file.val.s)),
                        <<"exists", "is_dir">>, rem)
            ELSE IF Fails(fault, <<"exists", "is_dir">>)
            THEN OpFail(fault.exc, <<"exists", "is_dir", "stat">>, rem)
            ELSE Read(encoding, file, PathStat(rem, file.val).size)
        Targeted(encoding, file) ==
            IF ~file.ok THEN OpFail(ValueError(file.err), <<>>, rem)
            ELSE Found(encoding, file)
        Encoded(encoding) ==
            IF ~encoding.ok THEN OpFail(ValueError(encoding.err), <<>>, rem)
            ELSE Targeted(encoding, FileTarget(req, env))
    IN IF req.max_bytes < 1 \/ req.max_bytes > 5000000
       THEN OpFail(ValueError(MaxBytesBetween), <<>>, rem)
       ELSE Encoded(ValidateEncoding(req.encoding))

\* _write_artifact_text_sync, lines 185-195: encoding, payload size, base
\* URL, path, _create_path
WriteTarget(req, env) ==
    LET Encoded(encoding) ==
            IF ~encoding.ok THEN Fail(encoding.err)
            ELSE IF Len(EncodeText(req.content)) > 5000000 THEN Fail(ContentTooLarge)
            ELSE FileTarget(req, env)
    IN Encoded(ValidateEncoding(req.encoding))

AlreadyExists(target) ==
    "Artifact already exists at " \o Str(target.s) \o ". Set overwrite=true to replace it."

\* lines 196-198: exists_before = target.exists(), and the refusal
WriteRefused(req, exists_before) == exists_before /\ ~req.overwrite

\* lines 203-210: the result of a write that went through
WriteResult(req, file, exists_before) ==
    [base_url |-> file.base_url,
     repository |-> file.val.xs[1].s,
     path |-> file.val.xs[2].s,
     uri |-> file.val.s,
     bytes_written |-> Len(EncodeText(req.content)),
     overwritten |-> exists_before]

\* artifact_ops._write_artifact_text_sync, run with nothing in between
WriteArtifactTextSync(req, env, rem, fault) ==
    LET Written(file, exists_before, made, net) ==
            IF Fails(fault, net) THEN OpFail(fault.exc, Append(net, "write_text"), made)
            ELSE OpPass(WriteResult(req, file, exists_before), Append(net, "write_text"),
                        PathWriteText(made, file.val, req.content))
        Checked(file, exists_before) ==
            IF WriteRefused(req, exists_before)
            THEN OpFail(FileExistsError(AlreadyExists(file.val)), <<"exists">>, rem)
            ELSE IF ~req.create_parents THEN Written(file, exists_before, rem, <<"exists">>)
            ELSE IF Fails(fault, <<"exists">>) THEN OpFail(fault.exc, <<"exists", "mkdir">>, rem)
            ELSE Written(file, exists_before, PathMkdirParents(rem, file.val),
                         <<"exists", "mkdir">>)
        Targeted(file) ==
            IF ~file.ok THEN OpFail(ValueError(file.err), <<>>, rem)
            ELSE IF Fails(fault, <<>>) THEN OpFail(fault.exc, <<"exists">>, rem)
            ELSE Checked(file, PathExists(rem, file.val))
    IN Targeted(WriteTarget(req, env))

----------------------------------------------------------------------------
(* tools.py (server.py 886-1101): the ten tools.  A tool hands its work to  *)
(* a worker thread and awaits it; what the work did is in `last` when the   *)
(* tool's own frame, the try/except around the await, decides what the      *)
(* caller gets.  One tool call runs at a time here.                         *)

Caller == CHOOSE t \in Threads : TRUE

Env == [settings |-> settings, entry |-> entry]

\* the two tools whose body is not inside try/except
UnguardedTools == {"list_artifactory_handles", "drop_artifactory_handle"}

\* except Exception as exc: raise RuntimeError(_format_error(tool, exc)) from
\* None, for the tools that have the clause
ToolRaises(tool, exc) ==
    IF tool \in UnguardedTools THEN exc
    ELSE PyError("RuntimeError", FormatError(tool, exc))

\* the tool awaits the worker thread
Awaits(tool, req) == Goto(Caller, "tool_boundary", [op |-> "tool", tool |-> tool, req |-> req])

\* the work failed before anything was invoked
SetupFails(tool, req, err) ==
    /\ last' = [op |-> "setup", req |-> req, ok |-> FALSE, err |-> err,
                val |-> PyNone, net |-> <<>>, events |-> <<>>]
    /\ UNCHANGED <<config, remote, items, counter, put_log, drop_log>>

\* a convenience operation ran and did r
Ran(op, req, r) ==
    /\ last' = [op |-> op, req |-> req, ok |-> r.ok, err |-> r.err, val |-> r.val,
                net |-> r.net, events |-> <<>>]
    /\ remote' = r.remote
    /\ UNCHANGED <<config, items, counter, put_log, drop_log>>

ListArtifactsTool(req, fault) ==
    /\ pc[Caller] = "idle"
    /\ Ran("list_artifacts", req, ListArtifactsSync(req, Env, remote, fault))
    /\ Awaits("list_artifacts", req)
    /\ UNCHANGED lock

GetArtifactDetailsTool(req, fault) ==
    /\ pc[Caller] = "idle"
    /\ Ran("get_artifact_details", req,
           GetArtifactDetailsSync(req, Env, remote, fault, StoreNow))
    /\ Awaits("get_artifact_details", req)
    /\ UNCHANGED lock

ReadArtifactTextTool(req, fault) ==
    /\ pc[Caller] = "idle"
    /\ Ran("read_artifact_text", req, ReadArtifactTextSync(req, Env, remote, fault))
    /\ Awaits("read_artifact_text", req)
    /\ UNCHANGED lock

WriteArtifactTextTool(req, fault) ==
    /\ pc[Caller] = "idle"
    /\ Ran("write_artifact_text", req, WriteArtifactTextSync(req, Env, remote, fault))
    /\ Awaits("write_artifact_text", req)
    /\ UNCHANGED lock

\* _list_capabilities_sync: the package's name and the methods found on the
\* path class
ListCapabilitiesTool ==
    /\ pc[Caller] = "idle"
    /\ Ran("list_artifactory_capabilities", PyNone,
           OpPass([package |-> "dohq-artifactory",
                   path_methods |-> PublicMethodNamesForTarget(
                                        PyArtifactoryPath("ArtifactoryPath", <<>>, <<>>, <<>>))],
                  <<>>, remote))
    /\ Awaits("list_artifactory_capabilities", PyNone)
    /\ UNCHANGED lock

\* the request _invoke_method_sync gets from an invoke tool
MethodRequest(req, target, label) ==
    [target |-> target, target_label |-> label, method |-> req.method,
     positional_args |-> req.positional_args, keyword_args |-> req.keyword_args,
     max_items |-> req.max_items]

\* invoke_artifactory_root_method: _create_root(_resolve_base_url(base_url))
InvokeRootTool(req) ==
    /\ pc[Caller] = "idle"
    /\ LET WithBase(base) ==
               IF ~base.ok
               THEN SetupFails("invoke_artifactory_root_method", req, ValueError(base.err))
               ELSE InvokeMethodSync(
                        MethodRequest(req,
                                      PyArtifactoryPath(PathClass(settings), base.val.s,
                                                        <<>>, <<>>),
                                      "root:" \o Str(base.val.s)))
       IN WithBase(ResolveBaseUrl(req.base_url, Env))
    /\ Awaits("invoke_artifactory_root_method", req)
    /\ UNCHANGED lock

\* invoke_artifactory_path_method:
\* _create_path(_resolve_base_url(base_url), repository, path)
InvokePathTool(req) ==
    /\ pc[Caller] = "idle"
    /\ LET Created(created) ==
               IF ~created.ok
               THEN SetupFails("invoke_artifactory_path_method", req,
                               ValueError(created.err))
               ELSE InvokeMethodSync(MethodRequest(req, created.val,
                                                   "path:" \o Str(created.val.s)))
           WithBase(base) ==
               IF ~base.ok
               THEN SetupFails("invoke_artifactory_path_method", req, ValueError(base.err))
               ELSE Created(CreatePath(base.val.s, req.repository, req.path, settings))
       IN WithBase(ResolveBaseUrl(req.base_url, Env))
    /\ Awaits("invoke_artifactory_path_method", req)
    /\ UNCHANGED lock

\* invoke_artifactory_handle_method: handle = _HANDLE_STORE.get(handle_id)
InvokeHandleTool(req) ==
    /\ pc[Caller] = "idle"
    /\ IF ~StoreGetFound(items, req.handle_id)
       THEN SetupFails("invoke_artifactory_handle_method", req,
                       ValueError(UnknownHandle(req.handle_id)))
       ELSE InvokeMethodSync(
                MethodRequest(req, StoreGetValue(items, req.handle_id),
                              HandleLabel(req.handle_id,
                                          StoreGetValue(items, req.handle_id))))
    /\ Awaits("invoke_artifactory_handle_method", req)
    /\ UNCHANGED lock

\* list_artifactory_handles: run_sync(_HANDLE_STORE.list)
ListHandlesTool ==
    /\ pc[Caller] = "idle"
    /\ Ran("list_artifactory_handles", PyNone, OpPass(StoreList(items), <<>>, remote))
    /\ Awaits("list_artifactory_handles", PyNone)
    /\ UNCHANGED lock

\* drop_artifactory_handle: _drop_handle_sync in tools.py, _HANDLE_STORE.drop
\* in server.py
DropHandleTool(handle_id) ==
    /\ pc[Caller] = "idle"
    /\ IF entry = "tools" /\ Strip(handle_id) = <<>>
       THEN SetupFails("drop_artifactory_handle", handle_id, ValueError(EmptyHandleId))
       ELSE LET Dropped(id) ==
                    /\ items' = StoreDropItems(items, id)
                    /\ drop_log' = DropLogged(id)
                    /\ last' = [op |-> "drop_artifactory_handle", req |-> handle_id,
                                ok |-> TRUE, err |-> NoError,
                                val |-> IF entry = "tools"
                                        THEN [handle_id |-> id, dropped |-> TRUE,
                                              existed |-> StoreDropResult(items, id),
                                              remaining_handles |-> StoreCount(items')]
                                        ELSE [handle_id |-> id,
                                              dropped |-> StoreDropResult(items, id)],
                                net |-> <<>>, events |-> <<>>]
                    /\ UNCHANGED <<config, remote, counter, put_log>>
            IN Dropped(IF entry = "tools" THEN Strip(handle_id) ELSE handle_id)
    /\ Awaits("drop_artifactory_handle", handle_id)
    /\ UNCHANGED lock

\* the await is over: the tool returns the result, or its except clause, if
\* it has one, raises
ToolBoundary ==
    /\ pc[Caller] = "tool_boundary"
    /\ last' = [op |-> "tool", tool |-> loc[Caller].tool, req |-> loc[Caller].req,
                inner |-> last, ok |-> last.ok,
                raised |-> IF last.ok THEN NoError
                           ELSE ToolRaises(loc[Caller].tool, last.err)]
    /\ Return(Caller)
    /\ UNCHANGED <<config, remote, items, counter, lock, put_log, drop_log>>

----------------------------------------------------------------------------
(* The requests the tools get *)

BaseUrlInputs == {PyNone, PyStr(<<"f", "t", "p", ":", "/", "/", "h">>), PyStr(<<"h", "t", "t", "p", "s", ":", "/", "/", "h", "/", "a", "r", "t", "i", "f", "a", "c", "t", "o", "r", "y">>)}

\* no fault, each fault at the first repository operation, one at the second
FaultInputs ==
    {NoFault} \cup {FaultAt(1, exc) : exc \in NetworkFaults}
        \cup {FaultAt(2, PyError("ConnectionError", "connection refused"))}

\* every request against a server that works, and the plain request against
\* every fault
ToolCalls(requests, request) ==
    (requests \X {NoFault}) \cup ({request} \X FaultInputs)

\* a listing of the repository's root, and requests that differ from it in
\* one or two arguments
ListRequest ==
    [repository |-> <<"l", "i", "b", "s">>, path |-> <<>>, recursive |-> FALSE, pattern |-> <<"*">>,
     include_directories |-> TRUE, include_stats |-> FALSE, max_items |-> 200,
     base_url |-> PyNone]
ListRequests ==
    {ListRequest, [ListRequest EXCEPT !.repository = <<"a", "/", "b">>]}
        \cup {[ListRequest EXCEPT !.path = path] : path \in {<<"d">>, <<".", ".", "/", "d">>, <<"b", ".", "b", "i", "n">>}}
        \cup {[ListRequest EXCEPT !.pattern = pattern, !.recursive = recursive] :
                  pattern \in {<<"*">>, <<" ">>, <<"*", ".", "t", "x", "t">>}, recursive \in BOOLEAN}
        \cup {[ListRequest EXCEPT !.include_directories = FALSE],
              [ListRequest EXCEPT !.include_stats = TRUE],
              [ListRequest EXCEPT !.base_url = PyStr(<<"f", "t", "p", ":", "/", "/", "h">>)]}
        \cup {[ListRequest EXCEPT !.max_items = max_items] : max_items \in {0, 1, 1001}}

DetailsRequest ==
    [repository |-> <<"l", "i", "b", "s">>, path |-> <<"d", "/", "a", ".", "t", "x", "t">>, include_properties |-> TRUE,
     include_download_stats |-> FALSE, base_url |-> PyNone]
DetailsRequests ==
    {DetailsRequest, [DetailsRequest EXCEPT !.repository = <<"a", "/", "b">>]}
        \cup {[DetailsRequest EXCEPT !.path = path] : path \in {<<>>, <<"d", "/", ".", ".">>, <<"n", "o", "p", "e">>}}
        \cup {[DetailsRequest EXCEPT !.include_properties = FALSE],
              [DetailsRequest EXCEPT !.include_download_stats = TRUE]}
        \cup {[DetailsRequest EXCEPT !.base_url = base_url] : base_url \in BaseUrlInputs}

ReadRequest ==
    [repository |-> <<"l", "i", "b", "s">>, path |-> <<"b", ".", "b", "i", "n">>, encoding |-> <<"u", "t", "f", "-", "8">>, max_bytes |-> 200000,
     base_url |-> PyNone]
ReadRequests ==
    {ReadRequest, [ReadRequest EXCEPT !.repository = <<"a", "/", "b">>]}
        \cup {[ReadRequest EXCEPT !.path = path] :
                  path \in {<<>>, <<"d">>, <<"d", "/", "a", ".", "t", "x", "t">>, <<".", ".", "/", "b", ".", "b", "i", "n">>, <<"n", "o", "p", "e">>}}
        \cup {[ReadRequest EXCEPT !.encoding = encoding] :
                  encoding \in {<<"U", "T", "F", "-", "8">>, <<" ">>, <<"u", "t", "f", "-", "9", "9">>}}
        \cup {[ReadRequest EXCEPT !.max_bytes = max_bytes] : max_bytes \in {0, 3, 5000001}}
        \cup {[ReadRequest EXCEPT !.base_url = base_url] : base_url \in BaseUrlInputs}

WriteRequest ==
    [repository |-> <<"l", "i", "b", "s">>, path |-> <<"e", "/", "n", ".", "t", "x", "t">>, content |-> <<"h", "i">>, encoding |-> <<"u", "t", "f", "-", "8">>,
     overwrite |-> FALSE, create_parents |-> TRUE, base_url |-> PyNone]
WriteRequests ==
    {WriteRequest, [WriteRequest EXCEPT !.repository = <<"a", "/", "b">>],
     [WriteRequest EXCEPT !.encoding = <<"u", "t", "f", "-", "9", "9">>],
     [WriteRequest EXCEPT !.create_parents = FALSE],
     [WriteRequest EXCEPT !.base_url = PyStr(<<"f", "t", "p", ":", "/", "/", "h">>)]}
        \cup {[WriteRequest EXCEPT !.path = path, !.overwrite = overwrite] :
                  path \in {<<>>, <<"d", "/", "a", ".", "t", "x", "t">>, <<"e", "/", "n", ".", "t", "x", "t">>, <<".", ".", "/", "n", ".", "t", "x", "t">>}, overwrite \in BOOLEAN}

RootRequests ==
    [method : {<<"e", "x", "i", "s", "t", "s">>, <<"_", "x">>}, positional_args : {<<>>}, keyword_args : {<<>>},
     max_items : {PyNone, PyInt(0)}, base_url : {PyNone, PyStr(<<"f", "t", "p", ":", "/", "/", "h">>)}]

PathRequest ==
    [repository |-> <<"l", "i", "b", "s">>, path |-> <<"d">>, method |-> <<"e", "x", "i", "s", "t", "s">>, positional_args |-> <<>>,
     keyword_args |-> <<>>, max_items |-> PyNone, base_url |-> PyNone]
PathRequests ==
    {PathRequest, [PathRequest EXCEPT !.repository = <<"a", "/", "b">>],
     [PathRequest EXCEPT !.positional_args = <<PyInt(1)>>]}
        \cup {[PathRequest EXCEPT !.path = path] : path \in {<<"n", "o", "p", "e">>, <<"d", "/", ".", ".", "/", "b", ".", "b", "i", "n">>}}
        \cup {[PathRequest EXCEPT !.method = method] : method \in {<<"i", "s", "_", "d", "i", "r">>, <<"_", "x">>}}
        \cup {[PathRequest EXCEPT !.max_items = max_items] :
                  max_items \in {PyInt(0), PyInt(10001)}}
        \cup {[PathRequest EXCEPT !.base_url = base_url] : base_url \in BaseUrlInputs}

HandleToolRequests ==
    [handle_id : {H1}, method : {<<"g", "e", "t", "_", "a">>, <<"_", "x">>}, positional_args : {<<>>},
     keyword_args : {<<>>}, max_items : {PyNone, PyInt(0)}]

\* an object another call left in the store
ToolPut ==
    /\ pc[Caller] = "idle"
    /\ StorePutCounter(counter) <= MaxInvokeCounter
    /\ Put(ObjA)

InitTools ==
    /\ entry \in {"tools", "server"}
    /\ settings \in SettingsInputs
    /\ items = <<>>
    /\ counter = 0
    /\ lock = 0
    /\ pc = [t \in Threads |-> "idle"]
    /\ loc = [t \in Threads |-> [op |-> "none"]]
    /\ last = [op |-> "init"]
    /\ put_log = <<>>
    /\ drop_log = {}
    /\ remote = RemoteAtStart

NextTools ==
    \/ \E call \in ToolCalls(ListRequests, ListRequest) : ListArtifactsTool(call[1], call[2])
    \/ \E call \in ToolCalls(DetailsRequests, DetailsRequest) : GetArtifactDetailsTool(call[1], call[2])
    \/ \E call \in ToolCalls(ReadRequests, ReadRequest) : ReadArtifactTextTool(call[1], call[2])
    \/ \E call \in ToolCalls(WriteRequests, WriteRequest) : WriteArtifactTextTool(call[1], call[2])
    \/ ListCapabilitiesTool
    \/ \E req \in RootRequests : InvokeRootTool(req)
    \/ \E req \in PathRequests : InvokePathTool(req)
    \/ \E req \in HandleToolRequests : InvokeHandleTool(req)
    \/ ListHandlesTool
    \/ \E handle_id \in {H1, <<" ">>} : DropHandleTool(handle_id)
    \/ ToolBoundary
    \/ ToolPut

SpecTools == InitTools /\ [][NextTools]_vars

----------------------------------------------------------------------------
(* Claims about the tools *)

\* C21: a tool call that fails raises RuntimeError with the text
\* _format_error makes of the failure, whatever the tool and whatever the
\* failure's own type; a tool call succeeds only when its work succeeded.
C21_UniformFailure ==
    last.op = "tool" =>
        /\ last.ok = last.inner.ok
        /\ ~last.ok =>
               /\ last.raised.cls = "RuntimeError"
               /\ last.raised.message = FormatError(last.tool, last.inner.err)

ValidatedTools ==
    {"list_artifacts", "get_artifact_details", "read_artifact_text",
     "write_artifact_text", "invoke_artifactory_path_method"}

\* no base URL in the request and none in the environment
NoBaseUrl(req) ==
    /\ req.base_url.t = "none" \/ (req.base_url.t = "str" /\ Strip(req.base_url.s) = <<>>)
    /\ settings.artifactory_base_url.t # "str" \/ settings.artifactory_base_url.s = <<>>

\* one of the arguments the tool takes is invalid
InvalidRequest(tool, req) ==
    \/ ~MatchesRepoPattern(Strip(req.repository))
    \/ HasDotDotSegment(req.path)
    \/ tool = "list_artifacts" /\ (req.max_items < 1 \/ req.max_items > 1000)
    \/ tool = "list_artifacts" /\ Strip(req.pattern) = <<>>
    \/ /\ tool = "invoke_artifactory_path_method"
       /\ req.max_items.t = "int"
       /\ (req.max_items.n < 1 \/ req.max_items.n > 10000)
    \/ tool = "read_artifact_text" /\ (req.max_bytes < 1 \/ req.max_bytes > 5000000)
    \/ /\ tool \in {"read_artifact_text", "write_artifact_text"}
       /\ ~KnownEncoding(Strip(req.encoding))
    \/ BadBaseUrl(req.base_url)
    \/ NoBaseUrl(req)

\* the work performed no operation on the repository and invoked nothing
NoRepositoryOperation(work) ==
    IF work.op = "invoke" THEN Calls(work) = 0 ELSE work.net = <<>>

\* C23: a call of one of the five tools with an invalid repository, a '..'
\* segment in the path, max_items or max_bytes out of range, a blank pattern,
\* an unsupported encoding or an invalid or missing base URL fails, and its
\* work performed no repository operation.
C23_ValidationBeforeNetwork ==
    (last.op = "tool" /\ last.tool \in ValidatedTools
        /\ InvalidRequest(last.tool, last.req)) =>
        (~last.ok /\ NoRepositoryOperation(last.inner))

\* C23 witness: read_artifact_text of an existing file with the encoding
\* 'utf-99' failed on the encoding and touched nothing
C23_Witness ==
    /\ last.op = "tool"
    /\ last.tool = "read_artifact_text"
    /\ last.req = [ReadRequest EXCEPT !.encoding = <<"u", "t", "f", "-", "9", "9">>]
    /\ settings = ConfiguredSettings
    /\ PathExists(remote, CreatePath(settings.artifactory_base_url.s, <<"l", "i", "b", "s">>, <<"b", ".", "b", "i", "n">>,
                                     settings).val)
    /\ ~last.ok
    /\ last.inner.err = ValueError(UnsupportedEncoding(<<"u", "t", "f", "-", "9", "9">>))
    /\ last.inner.net = <<>>

----------------------------------------------------------------------------
(* write_artifact_text on worker threads: the tool hands                    *)
(* _write_artifact_text_sync to anyio.to_thread.run_sync, so two calls run  *)
(* on two threads and their requests to the server interleave.  Each       *)
(* request (exists, mkdir, write_text) is one step; the server serves one   *)
(* request at a time.  No request fails here: faults are in SpecTools.      *)

WriteFailed(req, err) ==
    [op |-> "write_artifact_text", req |-> req, ok |-> FALSE, err |-> err,
     val |-> PyNone, replaced |-> FALSE]

\* lines 185-195: the checks and _create_path, which talk to nobody
T_WriteCall(t, req) ==
    /\ pc[t] = "idle"
    /\ LET Targeted(file) ==
               IF ~file.ok
               THEN /\ last' = WriteFailed(req, ValueError(file.err))
                    /\ UNCHANGED <<pc, loc>>
               ELSE /\ Goto(t, "write_exists", [op |-> "write", req |-> req, file |-> file])
                    /\ UNCHANGED last
       IN Targeted(WriteTarget(req, Env))
    /\ UNCHANGED <<config, remote, items, counter, lock, put_log, drop_log>>

\* lines 196-198: exists_before = target.exists(); raise FileExistsError
T_WriteExists(t) ==
    /\ pc[t] = "write_exists"
    /\ LET Checked(exists_before) ==
               IF WriteRefused(loc[t].req, exists_before)
               THEN /\ last' = WriteFailed(loc[t].req,
                                           FileExistsError(AlreadyExists(loc[t].file.val)))
                    /\ Return(t)
               ELSE /\ Goto(t, IF loc[t].req.create_parents THEN "write_mkdir"
                               ELSE "write_text",
                            [op |-> "write", req |-> loc[t].req, file |-> loc[t].file,
                             exists_before |-> exists_before])
                    /\ UNCHANGED last
       IN Checked(PathExists(remote, loc[t].file.val))
    /\ UNCHANGED <<config, remote, items, counter, lock, put_log, drop_log>>

\* lines 199-200: target.parent.mkdir(parents=True, exist_ok=True)
T_WriteMkdir(t) ==
    /\ pc[t] = "write_mkdir"
    /\ remote' = PathMkdirParents(remote, loc[t].file.val)
    /\ Goto(t, "write_text", loc[t])
    /\ UNCHANGED <<config, items, counter, lock, last, put_log, drop_log>>

\* lines 202-210: target.write_text(content, encoding=...) and the result;
\* `replaced` records whether the server held the artifact when it was written
T_WriteText(t) ==
    /\ pc[t] = "write_text"
    /\ remote' = PathWriteText(remote, loc[t].file.val, loc[t].req.content)
    /\ last' = [op |-> "write_artifact_text", req |-> loc[t].req, ok |-> TRUE,
                err |-> NoError,
                val |-> WriteResult(loc[t].req, loc[t].file, loc[t].exists_before),
                replaced |-> PathExists(remote, loc[t].file.val)]
    /\ Return(t)
    /\ UNCHANGED <<config, items, counter, lock, put_log, drop_log>>

\* writes of a new file and of an existing one, and a request that fails the
\* checks
WriteThreadRequests ==
    {[WriteRequest EXCEPT !.content = content] : content \in {<<"x">>, <<"y">>}}
        \cup {[WriteRequest EXCEPT !.overwrite = TRUE, !.create_parents = FALSE],
              [WriteRequest EXCEPT !.create_parents = FALSE],
              [WriteRequest EXCEPT !.path = <<"d", "/", "a", ".", "t", "x", "t">>],
              [WriteRequest EXCEPT !.path = <<"d", "/", "a", ".", "t", "x", "t">>, !.overwrite = TRUE],
              [WriteRequest EXCEPT !.encoding = <<"u", "t", "f", "-", "9", "9">>]}

NextWriteThreads ==
    \E t \in Threads :
        \/ \E req \in WriteThreadRequests : T_WriteCall(t, req)
        \/ T_WriteExists(t)
        \/ T_WriteMkdir(t)
        \/ T_WriteText(t)

SpecWriteThreads == InitTools /\ [][NextWriteThreads]_vars

\* C30: a write_artifact_text call with overwrite=false that succeeds wrote
\* to a path the server did not hold at the moment of the write, and a
\* result with overwritten=false means the write replaced nothing, whatever
\* other write_artifact_text calls run at the same time.
C30_NeverReplaces ==
    (last.op = "write_artifact_text" /\ last.ok) =>
        /\ ~last.req.overwrite => ~last.replaced
        /\ ~last.val.overwritten => ~last.replaced

====
